---- MODULE Spec2Model ----
(***************************************************************************)
(* A model of shiplift's transport and stream layer:                       *)
(*   - the frame demultiplexer (tty::decode) that Container::logs and      *)
(*     Exec::_start wrap around a chunk stream,                            *)
(*   - the request executor Transport::get_body,                           *)
(*   - the upgrade handshake Transport::stream_upgrade_tokio,              *)
(*   - the chunk stream stream_body,                                       *)
(*   - the JSON value stream Docker::stream_post_into_values.              *)
(* Each component has its own specification over the shared variables; a   *)
(* specification leaves the other components' variables untouched.         *)
(***************************************************************************)
EXTENDS Integers, Sequences, FiniteSets, TLC

VARIABLES
    \* ---- frame demultiplexer ----
    frames,     \* the frames the daemon writes: <<[tag, len]>> (the test input)
    rsv,        \* the three reserved bytes the daemon puts in every header
    wire,       \* the bytes on the wire: the encoding of frames
    pos,        \* how many bytes of wire the chunk stream has delivered
    demux,      \* the demultiplexer: [state, residual, out]
    ended,      \* the underlying stream has ended
    split,      \* some chunk ended strictly inside a frame
    \* ---- request executor and upgrade handshake ----
    call,       \* the entry point called: "get_body" or "stream_upgrade"
    xpc,        \* where the call is: idle, sent, responded, buffering, upgrading, done
    sent,       \* the requests handed to the backend's client so far
    resp,       \* the response received: <<>> or <<[status, body]>>
    consumed,   \* the response's body has been read by the transport
    result,     \* what the call returned: <<>> or <<the Result>>
    transport,  \* the Transport the call is made on
    args,       \* the call's arguments: <<>> or <<[body, headers]>>
    req,        \* the request build_request built: <<>> or <<[target, headers, body]>>
    \* ---- chunk stream (stream_body) ----
    hbody,      \* what the hyper Body yields, poll by poll, before it ends
    bidx,       \* how many of these the chunk stream has taken
    cpc,        \* the chunk stream: idle, polling (in body.next()), done
    cout,       \* the items the chunk stream has yielded
    demand,     \* how many times the consumer has polled the chunk stream
    dropped,    \* the consumer has dropped the chunk stream
    held,       \* the chunk stream (or its pending future) owns the Body
    \* ---- JSON value stream (stream_post_into_values) ----
    jdocs,      \* the documents the daemon writes (the test input)
    jwire,      \* their bytes
    jpos,       \* how many of these bytes the chunk stream has delivered
    jbufs,      \* the items the chunk stream has delivered: buffers, errors
    inner,      \* the items collected from the current buffer, not yet yielded
    jout,       \* the items the JSON value stream has yielded
    jdone,      \* the JSON value stream has ended
    \* ---- construction of a client (Docker::new, ::unix, ::host, Transport::from_*) ----
    features,   \* the cargo features of the build: [unix_socket, tls]
    environ,    \* the process environment: DOCKER_HOST, DOCKER_CERT_PATH, DOCKER_TLS_VERIFY
    ctor,       \* the constructor called: <<>> or <<[fn, arg]>>
    docker,     \* what the constructor gave: <<>> or <<a client, or a panic>>
    \* ---- container options (ContainerOptionsBuilder, ContainerOptions::to_json) ----
    params,     \* the builder's params: dotted key -> Value
    calls,      \* the builder methods called so far, in order
    serialized, \* what to_json gave for the built options: <<>> or <<the body>>
    \* ---- query options (LogsOptions, PullOptions, EventsOptions, ...) ----
    obuilder,   \* the options builder: [kind, params, auth, names]
    given,      \* what the latest call of each setter was given: fn -> [key, arg]
    ncalls,     \* the setter calls made on the builder
    built,      \* the options build() returned since the last setter call
    query,      \* what serialize() gave for the options built last: <<>> or <<it>>
    \* ---- streaming request (Transport::stream_chunks) ----
    spc,        \* the stream: none, first (made, not polled), pending, second, empty
    sout,       \* the items the stream yielded before its body stream
    \* ---- exec on a container (Container::exec) ----
    epc,        \* the stream of exec: none, first, creating, starting, streaming, done
    ereqs,      \* the requests sent, in order: [method, endpoint]
    eresp,      \* the response to the create request: <<>> or <<[status, body]>>
    ecreate,    \* what Exec::create_id returned: <<>> or <<the Result>>
    eout,       \* the items the stream yielded
    \* ---- line streams (Docker::events, Container::stats) ----
    ldocs,      \* the documents the daemon writes, one per line (the test input)
    lwire,      \* their bytes
    lpos,       \* how many of these bytes the reader has delivered
    lbuf,       \* the buffer of the FramedRead
    lout,       \* the items the stream has yielded
    lpc,        \* the stream: open, done, failed
    lmid        \* some read ended inside a line

demuxVars == <<frames, rsv, wire, pos, demux, ended, split>>

execVars == <<call, xpc, sent, resp, consumed, result, transport, args, req>>

chunkVars == <<hbody, bidx, cpc, cout, demand, dropped, held>>

jsonVars == <<jdocs, jwire, jpos, jbufs, inner, jout, jdone>>

connVars == <<features, environ, ctor, docker>>

optVars == <<params, calls, serialized>>

queryVars == <<obuilder, given, ncalls, built, query>>

streamVars == <<spc, sout>>

cexecVars == <<epc, ereqs, eresp, ecreate, eout>>

linesVars == <<ldocs, lwire, lpos, lbuf, lout, lpc, lmid>>

vars == <<demuxVars, execVars, chunkVars, jsonVars, connVars, optVars, queryVars, streamVars, cexecVars, linesVars>>

----------------------------------------------------------------------------
(* Bounds of the model.                                                    *)

MaxFrames == 2

MaxPayload == 2

MaxBodyItems == 4

MaxDocs == 2

MaxBuffers == 2

\* The builder methods called on one builder.
MaxCalls == 3

\* The build() calls in a row on one builder.
MaxBuilds == 2

----------------------------------------------------------------------------
(* Sequence helpers.                                                       *)

Take(s, n) == SubSeq(s, 1, n)

Drop(s, n) == SubSeq(s, n + 1, Len(s))

RECURSIVE Flatten(_)
Flatten(ss) == IF ss = <<>> THEN <<>> ELSE Head(ss) \o Flatten(Tail(ss))

----------------------------------------------------------------------------
(* The wire format of a frame: [tag:1][reserved:3][length:4 big-endian]    *)
(* followed by length payload bytes.                                       *)

HeaderLen == 8

\* The payload length as four big-endian bytes (the daemon's side).
BE32(n) == << (n \div 16777216) % 256, (n \div 65536) % 256, (n \div 256) % 256, n % 256 >>

\* The payload of the k-th frame: bytes that differ by frame and by place.
PayloadBytes(k, len) == [i \in 1..len |-> (16 * k + i) % 256]

EncodeFrame(k, f, r) == <<f.tag>> \o r \o BE32(f.len) \o PayloadBytes(k, f.len)

EncodeFrames(fs, r) == Flatten([k \in 1..Len(fs) |-> EncodeFrame(k, fs[k], r)])

\* Header byte 0 as a stream type.
TagOf(b) == CASE b = 0 -> "stdin" [] b = 1 -> "stdout" [] b = 2 -> "stderr"

\* Header bytes 4..7 read least significant byte first (a wrong byte order).
LengthOfLE(h) == h[5] + h[6] * 256 + h[7] * 65536 + h[8] * 16777216

\* Header bytes 4..7 as a big-endian unsigned 32-bit integer.
LengthOf(h) == h[5] * 16777216 + h[6] * 65536 + h[7] * 256 + h[8]

----------------------------------------------------------------------------
(* The demultiplexer's state machine.                                      *)

AwaitingHeader == [kind |-> "AwaitingHeader"]

AwaitingPayload(tag, remaining) ==
    [kind |-> "AwaitingPayload", tag |-> tag, remaining |-> remaining]

Frame(tag, payload) == [kind |-> "frame", tag |-> tag, payload |-> payload]

TruncatedStreamError == [kind |-> "error", error |-> "TruncatedStreamError"]

DemuxInit == [state |-> AwaitingHeader, residual |-> <<>>, out |-> <<>>]

\* Whether the loop can take a step: a whole header, or a whole payload.
CanStep(d) ==
    IF d.state.kind = "AwaitingHeader"
    THEN Len(d.residual) >= HeaderLen
    ELSE Len(d.residual) >= d.state.remaining

\* A turn of the loop that emits a frame as soon as its header is read, with
\* whatever part of the payload the residual already holds.
DemuxStepEarly(d) ==
    LET h    == Take(d.residual, HeaderLen)
        rest == Drop(d.residual, HeaderLen)
        n    == IF LengthOf(h) <= Len(rest) THEN LengthOf(h) ELSE Len(rest)
    IN  [d EXCEPT !.residual = Drop(rest, n),
                  !.out = Append(d.out, Frame(TagOf(h[1]), Take(rest, n)))]

\* One turn of the loop: consume a header, or consume exactly `remaining`
\* bytes as the payload and emit the frame.
DemuxStep(d) ==
    IF d.state.kind = "AwaitingHeader"
    THEN LET h == Take(d.residual, HeaderLen)
         IN  [d EXCEPT !.state = AwaitingPayload(TagOf(h[1]), LengthOf(h)),
                       !.residual = Drop(d.residual, HeaderLen)]
    ELSE [d EXCEPT !.state = AwaitingHeader,
                   !.residual = Drop(d.residual, d.state.remaining),
                   !.out = Append(d.out, Frame(d.state.tag,
                                               Take(d.residual, d.state.remaining)))]

\* The loop: step until the residual holds too few bytes.
RECURSIVE DemuxLoop(_)
DemuxLoop(d) == IF CanStep(d) THEN DemuxLoop(DemuxStep(d)) ELSE d

\* A chunk handler that forgets the bytes left over from the chunk before.
OnChunkForgetful(d, chunk) == DemuxLoop([d EXCEPT !.residual = chunk])

\* An incoming chunk: append it to the residual buffer, then loop.
OnChunk(d, chunk) == DemuxLoop([d EXCEPT !.residual = d.residual \o chunk])

\* An end of stream that ends the sequence silently in every state.
OnEndSilent(d) == d

\* The end of the underlying stream: clean in AwaitingHeader with an empty
\* residual, a TruncatedStreamError as the last item otherwise.
OnEnd(d) ==
    IF d.state.kind = "AwaitingHeader" /\ d.residual = <<>>
    THEN d
    ELSE [d EXCEPT !.out = Append(d.out, TruncatedStreamError)]

----------------------------------------------------------------------------
(* The demultiplexer fed by a chunk stream.                                *)

FrameSpecs == [tag : 0..2, len : 0..MaxPayload]

ReservedChoices == { <<0, 0, 0>>, <<1, 2, 3>> }

DemuxStart ==
    /\ frames \in UNION { [1..n -> FrameSpecs] : n \in 0..MaxFrames }
    /\ rsv \in ReservedChoices
    /\ wire = EncodeFrames(frames, rsv)
    /\ pos = 0
    /\ demux = DemuxInit
    /\ ended = FALSE
    /\ split = FALSE

\* The chunk stream delivers the next n bytes as one chunk.
DemuxChunk ==
    /\ ~ended
    /\ \E n \in 1..(Len(wire) - pos) :
         /\ demux' = OnChunk(demux, SubSeq(wire, pos + 1, pos + n))
         /\ pos' = pos + n
    /\ split' = (split \/ demux'.state.kind = "AwaitingPayload" \/ demux'.residual # <<>>)
    /\ UNCHANGED <<frames, rsv, wire, ended>>
    /\ UNCHANGED <<execVars, chunkVars, jsonVars, connVars, optVars, queryVars, streamVars, cexecVars, linesVars>>

\* The chunk stream ends, after all of the wire or in the middle of it.
DemuxEnd ==
    /\ ~ended
    /\ ended' = TRUE
    /\ demux' = OnEnd(demux)
    /\ UNCHANGED <<frames, rsv, wire, pos, split>>
    /\ UNCHANGED <<execVars, chunkVars, jsonVars, connVars, optVars, queryVars, streamVars, cexecVars, linesVars>>

DemuxNext == DemuxChunk \/ DemuxEnd

----------------------------------------------------------------------------
(* Text as bytes.  Strings the code handles are sequences of byte values.  *)

\* ''
BodyEmpty == <<>>

\* '{"message":"no such container"}'
BodyMessage == <<123, 34, 109, 101, 115, 115, 97, 103, 101, 34, 58, 34, 110, 111, 32, 115, 117, 99, 104, 32, 99, 111, 110, 116, 97, 105, 110, 101, 114, 34, 125>>

\* 'oops'
BodyNotJson == <<111, 111, 112, 115>>

\* '{"message":"?"}' with the byte 0xFF in place of the question mark
BodyBadUtf8 == <<123, 34, 109, 101, 115, 115, 97, 103, 101, 34, 58, 34, 255, 34, 125>>

\* '{"message":7}'
BodyMessageNumber == <<123, 34, 109, 101, 115, 115, 97, 103, 101, 34, 58, 55, 125>>

\* '{"error":"x"}'
BodyNoMessage == <<123, 34, 101, 114, 114, 111, 114, 34, 58, 34, 120, 34, 125>>

\* '{"code":7, "message":"m"}'
BodyExtraField == <<123, 34, 99, 111, 100, 101, 34, 58, 55, 44, 32, 34, 109, 101, 115, 115, 97, 103, 101, 34, 58, 34, 109, 34, 125>>

\* '{"message":"a","message":"b"}'
BodyTwoMessages == <<123, 34, 109, 101, 115, 115, 97, 103, 101, 34, 58, 34, 97, 34, 44, 34, 109, 101, 115, 115, 97, 103, 101, 34, 58, 34, 98, 34, 125>>

\* '{"message":"a"}x'
BodyTrailing == <<123, 34, 109, 101, 115, 115, 97, 103, 101, 34, 58, 34, 97, 34, 125, 120>>

\* '["boom"]'
BodyArray == <<91, 34, 98, 111, 111, 109, 34, 93>>

\* 'message'
KeyMessage == <<109, 101, 115, 115, 97, 103, 101>>

\* 'unknown error code'
UnknownErrorCode == <<117, 110, 107, 110, 111, 119, 110, 32, 101, 114, 114, 111, 114, 32, 99, 111, 100, 101>>

\* 'null', 'true', 'false'
LitNull == <<110, 117, 108, 108>>

LitTrue == <<116, 114, 117, 101>>

LitFalse == <<102, 97, 108, 115, 101>>

\* Option values: None is <<>>, Some(x) is <<x>>.
None == <<>>

Some(x) == <<x>>

----------------------------------------------------------------------------
(* String::from_utf8: whether a byte sequence is well-formed UTF-8.        *)

IsCont(b, i) == i <= Len(b) /\ b[i] \in 128..191

RECURSIVE Utf8From(_, _)
Utf8From(b, i) ==
    IF i > Len(b) THEN TRUE
    ELSE LET c == b[i] IN
         CASE c \in 0..127 -> Utf8From(b, i + 1)
           [] c \in 194..223 -> IsCont(b, i + 1) /\ Utf8From(b, i + 2)
           [] c = 224 -> i + 1 <= Len(b) /\ b[i + 1] \in 160..191
                         /\ IsCont(b, i + 2) /\ Utf8From(b, i + 3)
           [] c \in (225..236) \cup (238..239) ->
                         IsCont(b, i + 1) /\ IsCont(b, i + 2) /\ Utf8From(b, i + 3)
           [] c = 237 -> i + 1 <= Len(b) /\ b[i + 1] \in 128..159
                         /\ IsCont(b, i + 2) /\ Utf8From(b, i + 3)
           [] c = 240 -> i + 1 <= Len(b) /\ b[i + 1] \in 144..191
                         /\ IsCont(b, i + 2) /\ IsCont(b, i + 3) /\ Utf8From(b, i + 4)
           [] c \in 241..243 -> IsCont(b, i + 1) /\ IsCont(b, i + 2)
                         /\ IsCont(b, i + 3) /\ Utf8From(b, i + 4)
           [] c = 244 -> i + 1 <= Len(b) /\ b[i + 1] \in 128..143
                         /\ IsCont(b, i + 2) /\ IsCont(b, i + 3) /\ Utf8From(b, i + 4)
           [] OTHER -> FALSE

\* String::from_utf8(bytes): Some(the same bytes as a String) or None.
FromUtf8(b) == IF Utf8From(b, 1) THEN Some(b) ELSE None

----------------------------------------------------------------------------
(* serde_json: the JSON parser, over bytes.  The inputs of the model hold  *)
(* no backslash escapes, signs, fractions or exponents.                    *)

JNull == [t |-> "null"]

JBool(x) == [t |-> "bool", v |-> x]

JNum(n) == [t |-> "num", v |-> n]

JStr(s) == [t |-> "str", v |-> s]

JArr(es) == [t |-> "arr", v |-> es]

\* An object as parsed: its members <<key, value>> in document order.
JObj(ms) == [t |-> "obj", v |-> ms]

ParseOk(v, i) == [ok |-> TRUE, v |-> v, i |-> i]

ParseFail(i) == [ok |-> FALSE, i |-> i]

IsWs(c) == c \in {32, 10, 13, 9}

IsDigit(c) == c \in 48..57

RECURSIVE SkipWs(_, _)
SkipWs(b, i) == IF i <= Len(b) /\ IsWs(b[i]) THEN SkipWs(b, i + 1) ELSE i

HasAt(b, i, lit) == i + Len(lit) - 1 <= Len(b) /\ SubSeq(b, i, i + Len(lit) - 1) = lit

\* The index of the quote that closes a string whose text starts at i; 0 when
\* the input ends first or holds a control character.
RECURSIVE StringEnd(_, _)
StringEnd(b, i) ==
    IF i > Len(b) \/ b[i] < 32 THEN 0
    ELSE IF b[i] = 34 THEN i
    ELSE StringEnd(b, i + 1)

\* The index after the last digit of a run of digits starting at i.
RECURSIVE DigitsEnd(_, _)
DigitsEnd(b, i) == IF i <= Len(b) /\ IsDigit(b[i]) THEN DigitsEnd(b, i + 1) ELSE i

RECURSIVE DigitsValue(_, _, _)
DigitsValue(b, i, j) ==
    IF j <= i THEN 0 ELSE DigitsValue(b, i, j - 1) * 10 + (b[j - 1] - 48)

\* A number: 0, or a non-zero digit followed by digits; no leading zero.
ParseNumber(b, i) ==
    IF b[i] = 48
    THEN IF i + 1 <= Len(b) /\ IsDigit(b[i + 1]) THEN ParseFail(i + 1) ELSE ParseOk(JNum(0), i + 1)
    ELSE ParseOk(JNum(DigitsValue(b, i, DigitsEnd(b, i))), DigitsEnd(b, i))

RECURSIVE ParseValue(_, _), ParseElements(_, _, _), ParseMembers(_, _, _)

\* One JSON value starting at or after i (whitespace skipped).
ParseValue(b, i0) ==
    LET i == SkipWs(b, i0) IN
    IF i > Len(b) THEN ParseFail(i)
    ELSE LET c == b[i] IN
         CASE c = 34 ->
                LET e == StringEnd(b, i + 1)
                IN  IF e = 0 THEN ParseFail(i) ELSE ParseOk(JStr(SubSeq(b, i + 1, e - 1)), e + 1)
           [] c = 91 ->
                LET j == SkipWs(b, i + 1)
                IN  IF j <= Len(b) /\ b[j] = 93 THEN ParseOk(JArr(<<>>), j + 1)
                    ELSE ParseElements(b, i + 1, <<>>)
           [] c = 123 ->
                LET j == SkipWs(b, i + 1)
                IN  IF j <= Len(b) /\ b[j] = 125 THEN ParseOk(JObj(<<>>), j + 1)
                    ELSE ParseMembers(b, i + 1, <<>>)
           [] IsDigit(c) -> ParseNumber(b, i)
           [] c = 110 -> IF HasAt(b, i, LitNull) THEN ParseOk(JNull, i + 4) ELSE ParseFail(i)
           [] c = 116 -> IF HasAt(b, i, LitTrue) THEN ParseOk(JBool(TRUE), i + 4) ELSE ParseFail(i)
           [] c = 102 -> IF HasAt(b, i, LitFalse) THEN ParseOk(JBool(FALSE), i + 5) ELSE ParseFail(i)
           [] OTHER -> ParseFail(i)

\* The elements of an array after '[' or ',', up to the closing ']'.
ParseElements(b, i, acc) ==
    LET r == ParseValue(b, i) IN
    IF ~r.ok THEN r
    ELSE LET j == SkipWs(b, r.i) IN
         IF j > Len(b) THEN ParseFail(j)
         ELSE IF b[j] = 44 THEN ParseElements(b, j + 1, Append(acc, r.v))
         ELSE IF b[j] = 93 THEN ParseOk(JArr(Append(acc, r.v)), j + 1)
         ELSE ParseFail(j)

\* The members of an object after '{' or ',', up to the closing '}'.
ParseMembers(b, i, acc) ==
    LET k == SkipWs(b, i) IN
    IF k > Len(b) \/ b[k] # 34 THEN ParseFail(k)
    ELSE LET e == StringEnd(b, k + 1) IN
         IF e = 0 THEN ParseFail(k)
         ELSE LET c == SkipWs(b, e + 1) IN
              IF c > Len(b) \/ b[c] # 58 THEN ParseFail(c)
              ELSE LET r == ParseValue(b, c + 1) IN
                   IF ~r.ok THEN r
                   ELSE LET j  == SkipWs(b, r.i)
                            ms == Append(acc, <<SubSeq(b, k + 1, e - 1), r.v>>)
                        IN  IF j > Len(b) THEN ParseFail(j)
                            ELSE IF b[j] = 44 THEN ParseMembers(b, j + 1, ms)
                            ELSE IF b[j] = 125 THEN ParseOk(JObj(ms), j + 1)
                            ELSE ParseFail(j)

\* serde_json::from_str: one value and nothing but whitespace after it.
FromStr(b) ==
    LET r == ParseValue(b, 1) IN
    IF r.ok /\ SkipWs(b, r.i) > Len(b) THEN Some(r.v) ELSE None

\* Deserialize for ErrorResponse { message: String } (derived): a map with
\* exactly one "message" key whose value is a string (other keys are
\* ignored), or a sequence of exactly one string.
AsErrorResponse(v) ==
    CASE v.t = "obj" ->
           LET ms == SelectSeq(v.v, LAMBDA m : m[1] = KeyMessage)
           IN  IF Len(ms) = 1 /\ ms[1][2].t = "str" THEN Some(ms[1][2].v) ELSE None
      [] v.t = "arr" ->
           IF Len(v.v) = 1 /\ v.v[1].t = "str" THEN Some(v.v[1].v) ELSE None
      [] OTHER -> None

----------------------------------------------------------------------------
(* Construction of a client: Docker::new, Docker::unix, Docker::host,      *)
(* Transport::from_uri, Transport::from_unix_socket.                       *)

\* The strings of the constructors and of the requests, as bytes.
Text ==
    [ UnixPrefix |->   \* 'unix://'
        <<117, 110, 105, 120, 58, 47, 47>>,
      SchemeUnix |->   \* 'unix'
        <<117, 110, 105, 120>>,
      SchemeSep |->   \* '://'
        <<58, 47, 47>>,
      TcpPrefix |->   \* 'tcp://'
        <<116, 99, 112, 58, 47, 47>>,
      HttpsPrefix |->   \* 'https://'
        <<104, 116, 116, 112, 115, 58, 47, 47>>,
      DefaultSocket |->   \* '/var/run/docker.sock'
        <<47, 118, 97, 114, 47, 114, 117, 110, 47, 100, 111, 99, 107, 101, 114, 46, 115, 111, 99, 107>>,
      SocketPath |->   \* '/docker.sock'
        <<47, 100, 111, 99, 107, 101, 114, 46, 115, 111, 99, 107>>,
      HostUnixSocket |->   \* 'unix:///docker.sock'
        <<117, 110, 105, 120, 58, 47, 47, 47, 100, 111, 99, 107, 101, 114, 46, 115, 111, 99, 107>>,
      HostUnixAuthority |->   \* 'unix://localhost/docker.sock'
        <<117, 110, 105, 120, 58, 47, 47, 108, 111, 99, 97, 108, 104, 111, 115, 116, 47, 100, 111, 99, 107, 101, 114, 46, 115, 111, 99, 107>>,
      HostHttp |->   \* 'http://localhost:8000'
        <<104, 116, 116, 112, 58, 47, 47, 108, 111, 99, 97, 108, 104, 111, 115, 116, 58, 56, 48, 48, 48>>,
      HostTcp |->   \* 'tcp://h:2376'
        <<116, 99, 112, 58, 47, 47, 104, 58, 50, 51, 55, 54>>,
      HostTcpNoPort |->   \* 'tcp://h'
        <<116, 99, 112, 58, 47, 47, 104>>,
      HostNoScheme |->   \* 'localhost:8000'
        <<108, 111, 99, 97, 108, 104, 111, 115, 116, 58, 56, 48, 48, 48>>,
      Endpoint |->   \* '/containers/json'
        <<47, 99, 111, 110, 116, 97, 105, 110, 101, 114, 115, 47, 106, 115, 111, 110>> ]

\* The values DOCKER_HOST is given.
HostStrings == { Text.HostUnixSocket, Text.HostUnixAuthority, Text.HostHttp, Text.HostTcp,
                 Text.HostTcpNoPort, Text.HostNoScheme }

\* str::strip_prefix.
StripPrefix(str, prefix) ==
    IF HasAt(str, 1, prefix) THEN Some(Drop(str, Len(prefix))) ELSE None

\* The first index from i on where lit occurs in str; 0 when it does not.
RECURSIVE IndexOf(_, _, _)
IndexOf(str, lit, i) ==
    IF i + Len(lit) - 1 > Len(str) THEN 0
    ELSE IF HasAt(str, i, lit) THEN i
    ELSE IndexOf(str, lit, i + 1)

\* str::contains.
Contains(str, lit) == IndexOf(str, lit, 1) # 0

\* str::replace: every occurrence, left to right.
RECURSIVE ReplaceFrom(_, _, _, _)
ReplaceFrom(str, from, to, i) ==
    IF i > Len(str) THEN <<>>
    ELSE IF HasAt(str, i, from) THEN to \o ReplaceFrom(str, from, to, i + Len(from))
    ELSE <<str[i]>> \o ReplaceFrom(str, from, to, i + 1)

Replace(str, from, to) == ReplaceFrom(str, from, to, 1)

\* u16's to_string.
RECURSIVE Decimal(_)
Decimal(n) == IF n < 10 THEN <<48 + n>> ELSE Decimal(n \div 10) \o <<48 + (n % 10)>>

\* hyper::Uri, as its parser reads a string: a scheme before '://', an
\* authority up to the next '/', '?' or '#', and the path after it.
Uri(scheme, authority, path) == [scheme |-> scheme, authority |-> authority, path |-> path]

IsSchemeChar(c) == c \in (48..57) \cup (65..90) \cup (97..122) \cup {43, 45, 46}

\* The length of the scheme of str; 0 when str has none.
SchemeLen(str) ==
    LET k == IndexOf(str, Text.SchemeSep, 1)
    IN  IF k > 1 /\ \A j \in 1..(k - 1) : IsSchemeChar(str[j]) THEN k - 1 ELSE 0

\* The index after the authority that starts at i.
RECURSIVE AuthorityEnd(_, _)
AuthorityEnd(str, i) ==
    IF i > Len(str) \/ str[i] \in {47, 63, 35} THEN i ELSE AuthorityEnd(str, i + 1)

\* str::parse::<Uri>: None is the parse error.  A string without a scheme is
\* a path (when it starts with '/') or an authority and nothing else; a string
\* with a scheme needs an authority.
ParseUri(str) ==
    IF str = <<>> THEN None
    ELSE IF str[1] = 47 THEN Some(Uri(None, None, str))
    ELSE LET sl    == SchemeLen(str)
             start == IF sl = 0 THEN 1 ELSE sl + Len(Text.SchemeSep) + 1
             ae    == AuthorityEnd(str, start)
             auth  == SubSeq(str, start, ae - 1)
         IN  IF sl = 0
             THEN IF ae <= Len(str) \/ auth = <<>> THEN None
                  ELSE Some(Uri(None, Some(auth), <<>>))
             ELSE IF auth = <<>> THEN None
                  ELSE Some(Uri(Some(Take(str, sl)), Some(auth), Drop(str, ae - 1)))

\* The index of the last ':' of an authority; 0 when it has none.
RECURSIVE LastColon(_, _)
LastColon(auth, i) ==
    IF i = 0 THEN 0 ELSE IF auth[i] = 58 THEN i ELSE LastColon(auth, i - 1)

\* Uri::scheme_str.
UriSchemeStr(uri) == uri.scheme

\* Uri::host.
UriHost(uri) ==
    IF uri.authority = None THEN None
    ELSE LET auth == uri.authority[1]
             c    == LastColon(auth, Len(auth))
         IN  Some(IF c = 0 THEN auth ELSE Take(auth, c - 1))

\* Uri::port_u16: the digits after the last ':' when they are a u16.
UriPortU16(uri) ==
    IF uri.authority = None THEN None
    ELSE LET auth == uri.authority[1]
             c    == LastColon(auth, Len(auth))
         IN  IF c = 0 \/ c = Len(auth) \/ Len(auth) - c > 5 THEN None
             ELSE IF \E j \in (c + 1)..Len(auth) : ~IsDigit(auth[j]) THEN None
             ELSE IF DigitsValue(auth, c + 1, Len(auth) + 1) > 65535 THEN None
             ELSE Some(DigitsValue(auth, c + 1, Len(auth) + 1))

\* Uri::path: '/' for an absolute URI without a path.
UriPath(uri) == IF uri.path = <<>> /\ uri.scheme # None THEN <<47>> ELSE uri.path

\* The URIs handed to Docker::host and Transport::from_uri.
Uris == { ParseUri(h)[1] : h \in {x \in HostStrings : ParseUri(x) # None} }

\* A port that defaults to 443.
PortOrDefault443(uri) == IF UriPortU16(uri) = None THEN 443 ELSE UriPortU16(uri)[1]

\* port_u16().unwrap_or(80)
PortOrDefault(uri) == IF UriPortU16(uri) = None THEN 80 ELSE UriPortU16(uri)[1]

\* format!("{}://{}:{}", scheme, host, port)
FormatHostStr(scheme, host, port) == scheme \o Text.SchemeSep \o host \o <<58>> \o Decimal(port)

\* The Transport variants; pool_max_idle_per_host is None where the client
\* builder is left at its default.
TransportTcp(host) == [kind |-> "Tcp", host |-> host, pool_max_idle_per_host |-> None]

TransportEncryptedTcp(host) ==
    [kind |-> "EncryptedTcp", host |-> host, pool_max_idle_per_host |-> None]

TransportUnix(path, idle) == [kind |-> "Unix", path |-> path, pool_max_idle_per_host |-> idle]

\* What a constructor gives: the client, or a panic.
Constructed(t) == [kind |-> "constructed", transport |-> t]

Panicked(message) == [kind |-> "panic", message |-> message]

\* The directory DOCKER_CERT_PATH names: with cert.pem, key.pem and ca.pem
\* ("full"), without ca.pem ("noca"), or without any of them ("empty").
CertDirs == {"full", "noca", "empty"}

\* The unwraps on set_certificate_file, set_private_key_file and set_ca_file.
TlsFilesLoad(env) ==
    /\ env.DOCKER_CERT_PATH[1] # "empty"
    /\ env.DOCKER_TLS_VERIFY => env.DOCKER_CERT_PATH[1] = "full"

\* The host string of EncryptedTcp: 'tcp://' becomes 'https://'.
SecureHostStr(tcp_host_str) ==
    IF Contains(tcp_host_str, Text.TcpPrefix)
    THEN Replace(tcp_host_str, Text.TcpPrefix, Text.HttpsPrefix)
    ELSE tcp_host_str

\* get_docker_for_tcp, in a build with and without the tls feature.
GetDockerForTcp(feat, env, tcp_host_str) ==
    IF feat.tls /\ env.DOCKER_CERT_PATH # None
    THEN IF TlsFilesLoad(env)
         THEN Constructed(TransportEncryptedTcp(SecureHostStr(tcp_host_str)))
         ELSE Panicked("called Result::unwrap() on an Err value")
    ELSE Constructed(TransportTcp(tcp_host_str))

\* Transport::from_tcp, in a build with and without the tls feature.
FromTcp(feat, env, tcp_host_str) ==
    IF feat.tls /\ env.DOCKER_CERT_PATH # None
    THEN IF TlsFilesLoad(env)
         THEN Constructed(TransportEncryptedTcp(SecureHostStr(tcp_host_str)))
         ELSE Panicked("called Result::unwrap() on an Err value")
    ELSE Constructed(TransportTcp(tcp_host_str))

\* Docker::unix.
DockerUnix(socket_path) == Constructed(TransportUnix(socket_path, Some(0)))

\* Transport::from_unix_socket.
FromUnixSocket(socket_path) == Constructed(TransportUnix(socket_path, Some(0)))

\* Docker::host: the host string is formatted first, with its unwraps, then
\* the scheme is matched.
DockerHost(feat, env, host) ==
    IF UriSchemeStr(host) = None \/ UriHost(host) = None
    THEN Panicked("called Option::unwrap() on a None value")
    ELSE LET tcp_host_str ==
                 FormatHostStr(UriSchemeStr(host)[1], UriHost(host)[1], PortOrDefault(host))
         IN  IF UriSchemeStr(host) = Some(Text.SchemeUnix)
             THEN IF feat.unix_socket
                  THEN Constructed(TransportUnix(UriPath(host), None))
                  ELSE Panicked("Unix socket support is disabled")
             ELSE GetDockerForTcp(feat, env, tcp_host_str)

\* Transport::from_uri.
FromUri(feat, env, uri) ==
    IF UriSchemeStr(uri) = None \/ UriHost(uri) = None
    THEN Panicked("called Option::unwrap() on a None value")
    ELSE LET tcp_host_str ==
                 FormatHostStr(UriSchemeStr(uri)[1], UriHost(uri)[1], PortOrDefault(uri))
         IN  IF UriSchemeStr(uri) = Some(Text.SchemeUnix)
             THEN IF feat.unix_socket
                  THEN Constructed(TransportUnix(UriPath(uri), None))
                  ELSE Panicked("Unix socket support is disabled")
             ELSE FromTcp(feat, env, tcp_host_str)

\* Docker::new.
DockerNew(feat, env) ==
    IF env.DOCKER_HOST # None
    THEN LET host == env.DOCKER_HOST[1]
         IN  IF feat.unix_socket /\ StripPrefix(host, Text.UnixPrefix) # None
             THEN DockerUnix(StripPrefix(host, Text.UnixPrefix)[1])
             ELSE IF ParseUri(host) = None THEN Panicked("invalid url")
             ELSE DockerHost(feat, env, ParseUri(host)[1])
    ELSE IF feat.unix_socket THEN DockerUnix(Text.DefaultSocket)
         ELSE Panicked("Unix socket support is disabled")

ConnStart ==
    /\ features \in [unix_socket : BOOLEAN, tls : BOOLEAN]
    /\ environ \in [DOCKER_HOST : {None} \cup {Some(h) : h \in HostStrings},
                    DOCKER_CERT_PATH : {None} \cup {Some(d) : d \in CertDirs},
                    DOCKER_TLS_VERIFY : BOOLEAN]
    /\ ctor = None
    /\ docker = None

CallNew ==
    /\ ctor = None
    /\ ctor' = Some([fn |-> "Docker::new", arg |-> <<>>])
    /\ docker' = Some(DockerNew(features, environ))
    /\ UNCHANGED <<features, environ>>
    /\ UNCHANGED <<demuxVars, execVars, chunkVars, jsonVars, optVars, queryVars, streamVars, cexecVars, linesVars>>

CallUnix ==
    /\ ctor = None
    /\ features.unix_socket
    /\ \E path \in {Text.DefaultSocket, Text.SocketPath} :
         /\ ctor' = Some([fn |-> "Docker::unix", arg |-> path])
         /\ docker' = Some(DockerUnix(path))
    /\ UNCHANGED <<features, environ>>
    /\ UNCHANGED <<demuxVars, execVars, chunkVars, jsonVars, optVars, queryVars, streamVars, cexecVars, linesVars>>

CallHost ==
    /\ ctor = None
    /\ \E host \in Uris :
         /\ ctor' = Some([fn |-> "Docker::host", arg |-> host])
         /\ docker' = Some(DockerHost(features, environ, host))
    /\ UNCHANGED <<features, environ>>
    /\ UNCHANGED <<demuxVars, execVars, chunkVars, jsonVars, optVars, queryVars, streamVars, cexecVars, linesVars>>

CallFromUri ==
    /\ ctor = None
    /\ \E uri \in Uris :
         /\ ctor' = Some([fn |-> "Transport::from_uri", arg |-> uri])
         /\ docker' = Some(FromUri(features, environ, uri))
    /\ UNCHANGED <<features, environ>>
    /\ UNCHANGED <<demuxVars, execVars, chunkVars, jsonVars, optVars, queryVars, streamVars, cexecVars, linesVars>>

CallFromUnixSocket ==
    /\ ctor = None
    /\ features.unix_socket
    /\ \E path \in {Text.DefaultSocket, Text.SocketPath} :
         /\ ctor' = Some([fn |-> "Transport::from_unix_socket", arg |-> path])
         /\ docker' = Some(FromUnixSocket(path))
    /\ UNCHANGED <<features, environ>>
    /\ UNCHANGED <<demuxVars, execVars, chunkVars, jsonVars, optVars, queryVars, streamVars, cexecVars, linesVars>>

ConnNext == CallNew \/ CallUnix \/ CallHost \/ CallFromUri \/ CallFromUnixSocket

----------------------------------------------------------------------------
(* The request executor, Transport::get_body, and the upgrade handshake,   *)
(* Transport::stream_upgrade_tokio.                                        *)

\* The statuses the daemon answers with in the model; 599 has no reason phrase.
StatusCodes == {101, 200, 201, 204, 304, 404, 500, 599}

Bodies == { BodyEmpty, BodyMessage, BodyNotJson, BodyBadUtf8, BodyMessageNumber,
            BodyNoMessage, BodyExtraField, BodyTwoMessages, BodyTrailing, BodyArray }

\* StatusCode::canonical_reason.
CanonicalReason(status) ==
    CASE status = 101 -> Some(<<83, 119, 105, 116, 99, 104, 105, 110, 103, 32, 80, 114, 111, 116, 111, 99, 111, 108, 115>>)   \* Switching Protocols
      [] status = 200 -> Some(<<79, 75>>)   \* OK
      [] status = 201 -> Some(<<67, 114, 101, 97, 116, 101, 100>>)   \* Created
      [] status = 204 -> Some(<<78, 111, 32, 67, 111, 110, 116, 101, 110, 116>>)   \* No Content
      [] status = 304 -> Some(<<78, 111, 116, 32, 77, 111, 100, 105, 102, 105, 101, 100>>)   \* Not Modified
      [] status = 404 -> Some(<<78, 111, 116, 32, 70, 111, 117, 110, 100>>)   \* Not Found
      [] status = 500 -> Some(<<73, 110, 116, 101, 114, 110, 97, 108, 32, 83, 101, 114, 118, 101, 114, 32, 69, 114, 114, 111, 114>>)   \* Internal Server Error
      [] OTHER -> None

\* The statuses get_body passes on: OK, CREATED, SWITCHING_PROTOCOLS, NO_CONTENT.
IsSuccess(status) == status \in {200, 201, 101, 204}

\* An extraction that never finds a message.
GetErrorMessageNever(body) == None

\* Transport::get_error_message: the message of a Docker JSON error structure.
GetErrorMessage(body) ==
    LET v == FromStr(body) IN IF v = None THEN None ELSE AsErrorResponse(v[1])

Fault(code, message) == [kind |-> "Fault", code |-> code, message |-> message]

HyperError == [kind |-> "Hyper"]

EncodingError == [kind |-> "Encoding"]

ConnectionNotUpgraded == [kind |-> "ConnectionNotUpgraded"]

Ok(value) == [ok |-> TRUE, value |-> value]

Err(error) == [ok |-> FALSE, error |-> error]

\* The response's body, passed on as it came.
BodyHandle == [kind |-> "Body"]

\* The raw duplex stream of an upgraded connection.
Upgraded == [kind |-> "Upgraded"]

\* The message of a Fault: the body's message, else the reason phrase, else
\* the fixed string.
FaultMessage(status, text) ==
    LET m == GetErrorMessage(text)
        r == CanonicalReason(status)
    IN  IF m # None THEN m[1] ELSE IF r # None THEN r[1] ELSE UnknownErrorCode

\* get_body's failure arm once the body is buffered: decode it, build the Fault.
FailureResult(status, bytes) ==
    LET text == FromUtf8(bytes)
    IN  IF text = None THEN Err(EncodingError)
        ELSE Err(Fault(status, FaultMessage(status, text[1])))

\* An upgrade that takes every status get_body takes for a success.
UpgradeAcceptedAnySuccess(status) == IsSuccess(status)

\* stream_upgrade_tokio: only SWITCHING_PROTOCOLS is an upgrade.
UpgradeAccepted(status) == status = 101

\* The Transports the calls are made on: one of each variant.
Transports == { TransportTcp(Text.HostHttp),
                TransportEncryptedTcp(SecureHostStr(Text.HostTcp)),
                TransportUnix(Text.DefaultSocket, Some(0)) }

\* The bodies a call is given: none, or a body with its Mime.
BodyArgs == { None, Some("application/json"), Some("application/tar") }

\* The extra headers get_body is given by the callers of stream_chunks: none,
\* an empty list (Docker::stream_get), the registry credentials (Images::pull).
HeaderArgs == { None, Some(<<>>), Some(<< <<"x-registry-auth", "e30=">> >>) }

\* The headers of the builder stream_upgrade_tokio starts from.
UpgradeBuilder == << <<"connection", "Upgrade">>, <<"upgrade", "tcp">> >>

\* The request target: the host string and the endpoint for Tcp and
\* EncryptedTcp, the socket path and the endpoint for Unix.
Target(t, endpoint) ==
    IF t.kind = "Unix" THEN [socket |-> t.path, endpoint |-> endpoint]
    ELSE [uri |-> t.host \o endpoint]

\* A build_request that sets the Host header for the Unix backend only.
BuildRequestHostForUnixOnly(t, endpoint, body, headers, builder) ==
    [target  |-> Target(t, endpoint),
     headers |-> builder
                   \o (IF t.kind = "Unix" THEN << <<"host", "">> >> ELSE <<>>)
                   \o (IF headers = None THEN <<>> ELSE headers[1])
                   \o (IF body = None THEN <<>> ELSE << <<"content-type", body[1]>> >>),
     body    |-> body # None]

\* Transport::build_request: the builder's headers, Host, the extra headers,
\* and Content-Type with the body.
BuildRequest(t, endpoint, body, headers, builder) ==
    [target  |-> Target(t, endpoint),
     headers |-> builder
                   \o << <<"host", "">> >>
                   \o (IF headers = None THEN <<>> ELSE headers[1])
                   \o (IF body = None THEN <<>> ELSE << <<"content-type", body[1]>> >>),
     body    |-> body # None]

ExecStart ==
    /\ call = "none"
    /\ xpc = "idle"
    /\ sent = 0
    /\ resp = None
    /\ consumed = FALSE
    /\ result = None
    /\ transport \in Transports
    /\ args = None
    /\ req = None

\* get_body or stream_upgrade_tokio is called: the request is built and
\* handed to the backend's client (send_request).  get_body is the entry of
\* the buffered request (Transport::request) and of the chunk stream
\* (get_chunk_stream); stream_upgrade_tokio passes no extra headers.
Call ==
    /\ xpc = "idle"
    /\ \E c \in {"get_body", "stream_upgrade"}, body \in BodyArgs, headers \in HeaderArgs :
         /\ c = "stream_upgrade" => headers = None
         /\ call' = c
         /\ args' = Some([body |-> body, headers |-> headers])
         /\ req' = Some(BuildRequest(transport, Text.Endpoint, body, headers,
                                     IF c = "stream_upgrade" THEN UpgradeBuilder ELSE <<>>))
    /\ xpc' = "sent"
    /\ sent' = sent + 1
    /\ UNCHANGED <<resp, consumed, result, transport>>
    /\ UNCHANGED <<demuxVars, chunkVars, jsonVars, connVars, optVars, queryVars, streamVars, cexecVars, linesVars>>

\* A send_request that sends the request again when the client fails.
SendFailsRetry ==
    /\ xpc = "sent"
    /\ IF sent < 2
       THEN sent' = sent + 1 /\ UNCHANGED <<xpc, result>>
       ELSE result' = Some(Err(HyperError)) /\ xpc' = "done" /\ sent' = sent
    /\ UNCHANGED <<call, resp, consumed, transport, args, req>>
    /\ UNCHANGED <<demuxVars, chunkVars, jsonVars, connVars, optVars, queryVars, streamVars, cexecVars, linesVars>>

\* send_request fails: the call returns the client's error.
SendFails ==
    /\ xpc = "sent"
    /\ result' = Some(Err(HyperError))
    /\ xpc' = "done"
    /\ UNCHANGED <<call, sent, resp, consumed, transport, args, req>>
    /\ UNCHANGED <<demuxVars, chunkVars, jsonVars, connVars, optVars, queryVars, streamVars, cexecVars, linesVars>>

\* The daemon answers.
Respond ==
    /\ xpc = "sent"
    /\ \E st \in StatusCodes, b \in Bodies : resp' = Some([status |-> st, body |-> b])
    /\ xpc' = "responded"
    /\ UNCHANGED <<call, sent, consumed, result, transport, args, req>>
    /\ UNCHANGED <<demuxVars, chunkVars, jsonVars, connVars, optVars, queryVars, streamVars, cexecVars, linesVars>>

\* get_body matches on the status.
GetBodyClassify ==
    /\ call = "get_body" /\ xpc = "responded"
    /\ IF IsSuccess(resp[1].status)
       THEN result' = Some(Ok(BodyHandle)) /\ xpc' = "done"
       ELSE result' = result /\ xpc' = "buffering"
    /\ UNCHANGED <<call, sent, resp, consumed, transport, args, req>>
    /\ UNCHANGED <<demuxVars, chunkVars, jsonVars, connVars, optVars, queryVars, streamVars, cexecVars, linesVars>>

\* get_body's failure arm: hyper::body::to_bytes reads the whole body, or fails.
GetBodyBuffered ==
    /\ xpc = "buffering"
    /\ consumed' = TRUE
    /\ \E readOk \in BOOLEAN :
         result' = Some(IF readOk THEN FailureResult(resp[1].status, resp[1].body)
                                  ELSE Err(HyperError))
    /\ xpc' = "done"
    /\ UNCHANGED <<call, sent, resp, transport, args, req>>
    /\ UNCHANGED <<demuxVars, chunkVars, jsonVars, connVars, optVars, queryVars, streamVars, cexecVars, linesVars>>

\* stream_upgrade_tokio matches on the status.
UpgradeClassify ==
    /\ call = "stream_upgrade" /\ xpc = "responded"
    /\ IF UpgradeAccepted(resp[1].status)
       THEN result' = result /\ xpc' = "upgrading"
       ELSE result' = Some(Err(ConnectionNotUpgraded)) /\ xpc' = "done"
    /\ UNCHANGED <<call, sent, resp, consumed, transport, args, req>>
    /\ UNCHANGED <<demuxVars, chunkVars, jsonVars, connVars, optVars, queryVars, streamVars, cexecVars, linesVars>>

\* hyper::upgrade::on(response): the upgraded connection, or hyper's error.
UpgradeOn ==
    /\ xpc = "upgrading"
    /\ \E upgradeOk \in BOOLEAN :
         result' = Some(IF upgradeOk THEN Ok(Upgraded) ELSE Err(HyperError))
    /\ xpc' = "done"
    /\ UNCHANGED <<call, sent, resp, consumed, transport, args, req>>
    /\ UNCHANGED <<demuxVars, chunkVars, jsonVars, connVars, optVars, queryVars, streamVars, cexecVars, linesVars>>

ExecNext ==
    \/ Call \/ SendFails \/ Respond
    \/ GetBodyClassify \/ GetBodyBuffered
    \/ UpgradeClassify \/ UpgradeOn

----------------------------------------------------------------------------
(* The chunk stream: stream_body, an unfold over the response's Body.      *)

BufferItem(k) == [kind |-> "buffer", id |-> k]

ErrorItem(e) == [kind |-> "err", error |-> e]

\* An unfold that asks the body for the next item as soon as it has yielded.
UnfoldStepPrefetch(item, k) ==
    [yield |-> IF item = "err" THEN ErrorItem(HyperError) ELSE BufferItem(k),
     next  |-> "polling"]

\* One step of the unfold on Some(item) from body.next(): the item with its
\* error mapped by Error::from, and the body as the next state.
UnfoldStep(item, k) ==
    [yield |-> IF item = "err" THEN ErrorItem(HyperError) ELSE BufferItem(k),
     next  |-> "idle"]

ChunkStart ==
    /\ hbody \in UNION { [1..n -> {"data", "err"}] : n \in 0..MaxBodyItems }
    /\ bidx = 0
    /\ cpc = "idle"
    /\ cout = <<>>
    /\ demand = 0
    /\ dropped = FALSE
    /\ held = TRUE

\* The consumer polls the stream: the unfold calls body.next().
ChunkPoll ==
    /\ ~dropped
    /\ cpc = "idle"
    /\ cpc' = "polling"
    /\ demand' = demand + 1
    /\ UNCHANGED <<hbody, bidx, cout, dropped, held>>
    /\ UNCHANGED <<demuxVars, execVars, jsonVars, connVars, optVars, queryVars, streamVars, cexecVars, linesVars>>

\* body.next() resolves: None ends the stream (the body is dropped with the
\* finished future), Some(item) is yielded and the body is the next state.
ChunkBodyNext ==
    /\ ~dropped
    /\ cpc = "polling"
    /\ IF bidx = Len(hbody)
       THEN cpc' = "done" /\ held' = FALSE /\ UNCHANGED <<bidx, cout>>
       ELSE LET step == UnfoldStep(hbody[bidx + 1], bidx + 1)
            IN  /\ cout' = Append(cout, step.yield)
                /\ cpc' = step.next
                /\ bidx' = bidx + 1
                /\ held' = held
    /\ UNCHANGED <<hbody, demand, dropped>>
    /\ UNCHANGED <<demuxVars, execVars, jsonVars, connVars, optVars, queryVars, streamVars, cexecVars, linesVars>>

\* A drop of the stream that leaves the Body alive.
ChunkDropKeepsBody ==
    /\ ~dropped
    /\ dropped' = TRUE
    /\ UNCHANGED <<hbody, bidx, cpc, cout, demand, held>>
    /\ UNCHANGED <<demuxVars, execVars, jsonVars, connVars, optVars, queryVars, streamVars, cexecVars, linesVars>>

\* The consumer drops the stream: the Unfold owns the Body, as its state or
\* inside the pending unfold future, so the Body is dropped with it.
ChunkDrop ==
    /\ ~dropped
    /\ dropped' = TRUE
    /\ held' = FALSE
    /\ UNCHANGED <<hbody, bidx, cpc, cout, demand>>
    /\ UNCHANGED <<demuxVars, execVars, jsonVars, connVars, optVars, queryVars, streamVars, cexecVars, linesVars>>

ChunkNext == ChunkPoll \/ ChunkBodyNext \/ ChunkDrop

----------------------------------------------------------------------------
(* A streaming request: Transport::stream_chunks, the try_flatten_stream   *)
(* of get_chunk_stream.                                                    *)

\* The bodies a successful response streams: buffers, and hyper's errors.
StreamedBodies == UNION { [1..n -> {"data", "err"}] : n \in 0..MaxBodyItems }

\* A stream_chunks that starts the request when it is called.
StreamChunksEager ==
    /\ spc = "none" /\ xpc = "idle"
    /\ \E body \in BodyArgs, headers \in HeaderArgs :
         /\ args' = Some([body |-> body, headers |-> headers])
         /\ req' = Some(BuildRequest(transport, Text.Endpoint, body, headers, <<>>))
    /\ call' = "get_body"
    /\ xpc' = "sent"
    /\ sent' = sent + 1
    /\ spc' = "first"
    /\ UNCHANGED <<sout, resp, consumed, result, transport>>
    /\ UNCHANGED <<demuxVars, chunkVars, jsonVars, connVars, optVars, queryVars, cexecVars, linesVars>>

\* stream_chunks is called: the future of get_chunk_stream is made and
\* wrapped, and nothing of it has run.
StreamChunks ==
    /\ spc = "none" /\ xpc = "idle"
    /\ \E body \in BodyArgs, headers \in HeaderArgs :
         args' = Some([body |-> body, headers |-> headers])
    /\ spc' = "first"
    /\ UNCHANGED <<sout, call, xpc, sent, resp, consumed, result, transport, req>>
    /\ UNCHANGED <<demuxVars, chunkVars, jsonVars, connVars, optVars, queryVars, cexecVars, linesVars>>

\* The first poll of the stream polls the future: get_body builds the
\* request and hands it to the backend's client.
StreamFirstPoll ==
    /\ spc = "first" /\ xpc = "idle"
    /\ call' = "get_body"
    /\ req' = Some(BuildRequest(transport, Text.Endpoint, args[1].body, args[1].headers, <<>>))
    /\ xpc' = "sent"
    /\ sent' = sent + 1
    /\ spc' = "pending"
    /\ UNCHANGED <<sout, resp, consumed, result, transport, args>>
    /\ UNCHANGED <<demuxVars, chunkVars, jsonVars, connVars, optVars, queryVars, cexecVars, linesVars>>

\* get_chunk_stream is ready.  On Ok the flattening goes on to
\* stream_body(body); on Err it yields the error and is empty from then on.
StreamResolve ==
    /\ spc = "pending" /\ xpc = "done" /\ result # None
    /\ IF result[1].ok
       THEN /\ spc' = "second"
            /\ hbody' \in StreamedBodies
            /\ bidx' = 0 /\ cpc' = "idle" /\ cout' = <<>>
            /\ demand' = 0 /\ dropped' = FALSE /\ held' = TRUE
            /\ sout' = sout
       ELSE /\ sout' = Append(sout, ErrorItem(result[1].error))
            /\ spc' = "empty"
            /\ UNCHANGED chunkVars
    /\ UNCHANGED <<execVars>>
    /\ UNCHANGED <<demuxVars, jsonVars, connVars, optVars, queryVars, cexecVars, linesVars>>

\* The flattening polls the body stream and yields what it yields.
StreamBody == spc = "second" /\ (ChunkPoll \/ ChunkBodyNext)

\* The body stream has ended: so has the stream.
StreamEnd ==
    /\ spc = "second" /\ cpc = "done"
    /\ spc' = "empty"
    /\ UNCHANGED sout
    /\ UNCHANGED <<demuxVars, execVars, chunkVars, jsonVars, connVars, optVars, queryVars, cexecVars, linesVars>>

StreamNext ==
    \/ StreamChunks \/ StreamFirstPoll
    \/ SendFails \/ Respond \/ GetBodyClassify \/ GetBodyBuffered
    \/ StreamResolve \/ StreamBody \/ StreamEnd

----------------------------------------------------------------------------
(* The JSON value stream: Docker::stream_post_into_values.                 *)

\* '{"a":1}'
DocA == <<123, 34, 97, 34, 58, 49, 125>>

\* '{"b":2}'
DocB == <<123, 34, 98, 34, 58, 50, 125>>

\* '[1,true]'
DocList == <<91, 49, 44, 116, 114, 117, 101, 93>>

Docs == {DocA, DocB, DocList}

\* Deserialize for serde_json::Value: an object becomes a map (the last of
\* two equal keys wins), an array a sequence.
RECURSIVE ToValue(_)
ToValue(v) ==
    CASE v.t = "obj" ->
           LET ms   == v.v
               keys == {ms[i][1] : i \in 1..Len(ms)}
               last(k) == CHOOSE i \in 1..Len(ms) :
                             ms[i][1] = k /\ \A j \in (i + 1)..Len(ms) : ms[j][1] # k
           IN  [t |-> "obj", v |-> [k \in keys |-> ToValue(ms[last(k)][2])]]
      [] v.t = "arr" -> [t |-> "arr", v |-> [i \in 1..Len(v.v) |-> ToValue(v.v[i])]]
      [] OTHER -> v

ValueItem(v) == [kind |-> "value", v |-> v]

SerdeJsonError == [kind |-> "SerdeJsonError"]

\* StreamDeserializer::peek_end_of_value: what may follow a number or a literal.
EndOfValue(b, i) == i > Len(b) \/ IsWs(b[i]) \/ b[i] \in {34, 91, 93, 123, 125, 44, 58}

\* Deserializer::from_slice(chunk).into_iter().collect(): the values of the
\* buffer in document order, up to and with the first parse error.
RECURSIVE StreamItems(_, _)
StreamItems(b, i) ==
    LET j == SkipWs(b, i) IN
    IF j > Len(b) THEN <<>>
    ELSE LET r == ParseValue(b, j) IN
         IF ~r.ok THEN <<ErrorItem(SerdeJsonError)>>
         ELSE IF b[j] \in {91, 34, 123} \/ EndOfValue(b, r.i)
              THEN <<ValueItem(ToValue(r.v))>> \o StreamItems(b, r.i)
              ELSE <<ErrorItem(SerdeJsonError)>> \o StreamItems(b, r.i)

\* A parse that takes a buffer for one document and drops what follows it.
ParseStreamFirstOnly(b) ==
    LET items == StreamItems(b, 1) IN IF items = <<>> THEN <<>> ELSE <<items[1]>>

ParseStream(b) == StreamItems(b, 1)

BufferEntry(from, to) == [kind |-> "buffer", from |-> from, to |-> to]

UpstreamError == [kind |-> "err"]

JsonStart ==
    /\ jdocs \in UNION { [1..n -> Docs] : n \in 0..MaxDocs }
    /\ jwire = Flatten(jdocs)
    /\ jpos = 0
    /\ jbufs = <<>>
    /\ inner = <<>>
    /\ jout = <<>>
    /\ jdone = FALSE

\* try_flatten has no inner stream left and polls the chunk stream, which
\* delivers the next n bytes; and_then collects the buffer's items.
JsonPull ==
    /\ ~jdone /\ inner = <<>> /\ Len(jbufs) < MaxBuffers
    /\ \E n \in 1..(Len(jwire) - jpos) :
         /\ inner' = ParseStream(SubSeq(jwire, jpos + 1, jpos + n))
         /\ jbufs' = Append(jbufs, BufferEntry(jpos + 1, jpos + n))
         /\ jpos' = jpos + n
    /\ UNCHANGED <<jdocs, jwire, jout, jdone>>
    /\ UNCHANGED <<demuxVars, execVars, chunkVars, connVars, optVars, queryVars, streamVars, cexecVars, linesVars>>

\* The chunk stream yields an error: and_then and try_flatten pass it on.
JsonUpstreamError ==
    /\ ~jdone /\ inner = <<>> /\ Len(jbufs) < MaxBuffers
    /\ jbufs' = Append(jbufs, UpstreamError)
    /\ jout' = Append(jout, ErrorItem(HyperError))
    /\ UNCHANGED <<jdocs, jwire, jpos, inner, jdone>>
    /\ UNCHANGED <<demuxVars, execVars, chunkVars, connVars, optVars, queryVars, streamVars, cexecVars, linesVars>>

\* try_flatten yields the next item of the inner stream.
JsonYield ==
    /\ inner # <<>>
    /\ jout' = Append(jout, Head(inner))
    /\ inner' = Tail(inner)
    /\ UNCHANGED <<jdocs, jwire, jpos, jbufs, jdone>>
    /\ UNCHANGED <<demuxVars, execVars, chunkVars, connVars, optVars, queryVars, streamVars, cexecVars, linesVars>>

\* The chunk stream ends: so does the JSON value stream.
JsonEnd ==
    /\ ~jdone /\ inner = <<>>
    /\ jdone' = TRUE
    /\ UNCHANGED <<jdocs, jwire, jpos, jbufs, inner, jout>>
    /\ UNCHANGED <<demuxVars, execVars, chunkVars, connVars, optVars, queryVars, streamVars, cexecVars, linesVars>>

JsonNext == JsonPull \/ JsonUpstreamError \/ JsonYield \/ JsonEnd

----------------------------------------------------------------------------
(* The line streams: Docker::events and Container::stats.  The chunk       *)
(* stream is read as bytes (into_async_read) by a FramedRead with a        *)
(* LinesCodec, and every line is parsed by serde_json::from_str.           *)

\* The documents the daemon writes, one per line; '"é"' has a character of
\* two bytes.
LineDocs == Docs \cup {<<34, 195, 169, 34>>}

\* The bytes of the documents, each followed by a newline.
RECURSIVE LinesOf(_)
LinesOf(docs) ==
    IF docs = <<>> THEN <<>> ELSE Head(docs) \o <<10>> \o LinesOf(Tail(docs))

IoError(kind) == [kind |-> "IO", io |-> kind]

\* LinesCodec::decode: the bytes up to and with the first newline are split
\* off the buffer and made a String, or nothing when there is no newline.
LinesDecode(buf) ==
    LET at == CHOOSE x \in {IndexOf(buf, <<10>>, 1)} : TRUE
    IN  IF at = 0 THEN [item |-> None, rest |-> buf]
        ELSE [item |-> Some(FromUtf8(Take(buf, at))), rest |-> Drop(buf, at)]

\* map_err(Error::IO) and and_then(serde_json::from_str) on a decoded line.
\* The item type here is serde_json::Value; Event and Stats refuse more
\* documents, whatever the buffers were.
LineItem(line) ==
    IF line = None THEN ErrorItem(IoError("InvalidData"))
    ELSE LET v == CHOOSE x \in {FromStr(line[1])} : TRUE
         IN  IF v = None THEN ErrorItem(SerdeJsonError) ELSE ValueItem(ToValue(v[1]))

\* Some delivered buffer ends inside a document or before its newline.
InsideLine(docs, at) ==
    \A k \in 0..Len(docs) : at # Len(LinesOf(SubSeq(docs, 1, k)))

\* The stream as Docker::events and Container::stats return it; the last
\* line the daemon writes may lack its newline.
LinesStart ==
    /\ ldocs \in UNION { [1..n -> LineDocs] : n \in 0..MaxDocs }
    /\ lwire \in {LinesOf(ldocs), Take(LinesOf(ldocs), Len(LinesOf(ldocs)) - 1)}
    /\ lpos = 0
    /\ lbuf = <<>>
    /\ lout = <<>>
    /\ lpc = "open"
    /\ lmid = FALSE

\* FramedRead::poll_next: decode finds a line in the buffer, and the stream
\* yields it parsed.
LinesYield ==
    /\ lpc = "open"
    /\ \E d \in {LinesDecode(lbuf)} :
         /\ d.item # None
         /\ lout' = Append(lout, LineItem(d.item[1]))
         /\ lbuf' = d.rest
    /\ UNCHANGED <<ldocs, lwire, lpos, lpc, lmid>>
    /\ UNCHANGED <<demuxVars, execVars, chunkVars, jsonVars, connVars, optVars, queryVars, streamVars, cexecVars>>

\* A read that replaces the buffer by the bytes delivered.
LinesReadDropsRest ==
    /\ lpc = "open" /\ LinesDecode(lbuf).item = None
    /\ \E n \in 1..(Len(lwire) - lpos) :
         /\ lbuf' = SubSeq(lwire, lpos + 1, lpos + n)
         /\ lpos' = lpos + n
         /\ lmid' = (lmid \/ (lpos + n < Len(lwire) /\ InsideLine(ldocs, lpos + n)))
    /\ UNCHANGED <<ldocs, lwire, lout, lpc>>
    /\ UNCHANGED <<demuxVars, execVars, chunkVars, jsonVars, connVars, optVars, queryVars, streamVars, cexecVars>>

\* FramedRead::poll_next: no line in the buffer, so the reader is polled;
\* it delivers the next n bytes, which are appended to the buffer.
LinesRead ==
    /\ lpc = "open" /\ LinesDecode(lbuf).item = None
    /\ \E n \in 1..(Len(lwire) - lpos) :
         /\ lbuf' = lbuf \o SubSeq(lwire, lpos + 1, lpos + n)
         /\ lpos' = lpos + n
         /\ lmid' = (lmid \/ (lpos + n < Len(lwire) /\ InsideLine(ldocs, lpos + n)))
    /\ UNCHANGED <<ldocs, lwire, lout, lpc>>
    /\ UNCHANGED <<demuxVars, execVars, chunkVars, jsonVars, connVars, optVars, queryVars, streamVars, cexecVars>>

\* The chunk stream yields an error: the reader gives it as an io::Error of
\* kind Other, which the stream yields.  The model follows the stream up to
\* its first error from the reader.
LinesUpstreamError ==
    /\ lpc = "open" /\ LinesDecode(lbuf).item = None
    /\ lout' = Append(lout, ErrorItem(IoError("Other")))
    /\ lpc' = "failed"
    /\ UNCHANGED <<ldocs, lwire, lpos, lbuf, lmid>>
    /\ UNCHANGED <<demuxVars, execVars, chunkVars, jsonVars, connVars, optVars, queryVars, streamVars, cexecVars>>

\* The chunk stream ends, the read gives no bytes: the stream ends when the
\* buffer is empty and yields an error for the bytes that remain otherwise.
LinesEof ==
    /\ lpc = "open" /\ LinesDecode(lbuf).item = None
    /\ lpos = Len(lwire)
    /\ IF lbuf = <<>>
       THEN lpc' = "done" /\ lout' = lout
       ELSE lpc' = "failed" /\ lout' = Append(lout, ErrorItem(IoError("UnexpectedEof")))
    /\ UNCHANGED <<ldocs, lwire, lpos, lbuf, lmid>>
    /\ UNCHANGED <<demuxVars, execVars, chunkVars, jsonVars, connVars, optVars, queryVars, streamVars, cexecVars>>

LinesNext == LinesYield \/ LinesRead \/ LinesUpstreamError \/ LinesEof

----------------------------------------------------------------------------
(* Exec on a container: Container::exec, Exec::create_id, Exec::_start.    *)

\* The strings of the exec requests and of the responses to create, as bytes.
ExecText ==
    [ KeyId |->   \* 'Id'
        <<73, 100>>,
      BodyId1 |->   \* '{"Id":"e1"}'
        <<123, 34, 73, 100, 34, 58, 34, 101, 49, 34, 125>>,
      BodyId2 |->   \* '{"Id":"e2"}'
        <<123, 34, 73, 100, 34, 58, 34, 101, 50, 34, 125>>,
      BodyIdNumber |->   \* '{"Id":7}'
        <<123, 34, 73, 100, 34, 58, 55, 125>>,
      BodyIdList |->   \* '["e1"]'
        <<91, 34, 101, 49, 34, 93>>,
      Containers |->   \* '/containers/'
        <<47, 99, 111, 110, 116, 97, 105, 110, 101, 114, 115, 47>>,
      Exec |->   \* '/exec'
        <<47, 101, 120, 101, 99>>,
      Start |->   \* '/start'
        <<47, 115, 116, 97, 114, 116>>,
      ContainerId |->   \* 'c1'
        <<99, 49>> ]

\* The bodies the daemon answers the create request with.
CreateBodies ==
    { ExecText.BodyId1, ExecText.BodyId2, ExecText.BodyIdNumber, ExecText.BodyIdList,
      BodyMessage, BodyNotJson, BodyBadUtf8, BodyEmpty }

\* Deserialize for Response { id: String }, PascalCase (derived): a map with
\* exactly one "Id" key whose value is a string (other keys are ignored), or
\* a sequence of exactly one string.
AsResponse(v) ==
    CASE v.t = "obj" ->
           LET ms == SelectSeq(v.v, LAMBDA m : m[1] = ExecText.KeyId)
           IN  IF Len(ms) = 1 /\ ms[1][2].t = "str" THEN Some(ms[1][2].v) ELSE None
      [] v.t = "arr" ->
           IF Len(v.v) = 1 /\ v.v[1].t = "str" THEN Some(v.v[1].v) ELSE None
      [] OTHER -> None

\* Transport::request on a response: get_body's match on the status, the
\* body read whole, and decoded as UTF-8.
RequestResult(status, body, readOk) ==
    IF ~readOk THEN Err(HyperError)
    ELSE IF ~IsSuccess(status) THEN FailureResult(status, body)
    ELSE LET string == CHOOSE x \in {FromUtf8(body)} : TRUE
         IN  IF string = None THEN Err(EncodingError) ELSE Ok(string[1])

\* Docker::post_json and the map of create_id: the string parsed as a
\* Response, and its id.
CreateIdResult(status, body, readOk) ==
    LET string == CHOOSE x \in {RequestResult(status, body, readOk)} : TRUE
    IN  IF ~string.ok THEN string
        ELSE LET v == CHOOSE x \in {FromStr(string.value)} : TRUE
                 response == IF v = None THEN None ELSE AsResponse(v[1])
             IN  IF response = None THEN Err(SerdeJsonError)
                 ELSE Ok(response[1])

\* format!("/containers/{}/exec", container_id)
CreateEndpoint(container_id) == ExecText.Containers \o container_id \o ExecText.Exec

\* format!("/exec/{}/start", exec_id)
StartEndpoint(exec_id) == ExecText.Exec \o <<47>> \o exec_id \o ExecText.Start

Post(endpoint) == [method |-> "POST", endpoint |-> endpoint]

CexecStart ==
    /\ epc = "none" /\ ereqs = <<>> /\ eresp = None /\ ecreate = None /\ eout = <<>>

\* Container::exec is called: the async block is boxed, nothing of it has run.
ContainerExec ==
    /\ epc = "none"
    /\ epc' = "first"
    /\ UNCHANGED <<ereqs, eresp, ecreate, eout>>
    /\ UNCHANGED <<demuxVars, execVars, chunkVars, jsonVars, connVars, optVars, queryVars, streamVars, linesVars>>

\* The first poll of the stream: create_id sends the create request.
CexecFirstPoll ==
    /\ epc = "first"
    /\ ereqs' = Append(ereqs, Post(CreateEndpoint(ExecText.ContainerId)))
    /\ epc' = "creating"
    /\ UNCHANGED <<eresp, ecreate, eout>>
    /\ UNCHANGED <<demuxVars, execVars, chunkVars, jsonVars, connVars, optVars, queryVars, streamVars, linesVars>>

\* The create request fails in the client: the stream yields the error.
CreateSendFails ==
    /\ epc = "creating"
    /\ ecreate' = Some(Err(HyperError))
    /\ eout' = Append(eout, ErrorItem(HyperError))
    /\ epc' = "done"
    /\ UNCHANGED <<ereqs, eresp>>
    /\ UNCHANGED <<demuxVars, execVars, chunkVars, jsonVars, connVars, optVars, queryVars, streamVars, linesVars>>

\* A create whose failure is passed over: the start request is sent with an
\* empty id.
CreateRespondsStartsAnyway ==
    /\ epc = "creating"
    /\ \E st \in StatusCodes, b \in CreateBodies, readOk \in BOOLEAN :
         \E id \in {CreateIdResult(st, b, readOk)} :
             /\ eresp' = Some([status |-> st, body |-> b])
             /\ ecreate' = Some(id)
             /\ ereqs' = Append(ereqs, Post(StartEndpoint(IF id.ok THEN id.value ELSE <<>>)))
             /\ epc' = "starting"
             /\ eout' = eout
    /\ UNCHANGED <<demuxVars, execVars, chunkVars, jsonVars, connVars, optVars, queryVars, streamVars, linesVars>>

\* The daemon answers the create request.  An Err of create_id leaves the
\* async block by '?': the stream yields it and is empty from then on.  On
\* Ok(id) _start makes the stream of the start request, which the flattening
\* polls at once: the start request is sent.
CreateResponds ==
    /\ epc = "creating"
    /\ \E st \in StatusCodes, b \in CreateBodies, readOk \in BOOLEAN :
         \E id \in {CreateIdResult(st, b, readOk)} :
             /\ eresp' = Some([status |-> st, body |-> b])
             /\ ecreate' = Some(id)
             /\ IF id.ok
                THEN /\ ereqs' = Append(ereqs, Post(StartEndpoint(id.value)))
                     /\ epc' = "starting"
                     /\ eout' = eout
                ELSE /\ eout' = Append(eout, ErrorItem(id.error))
                     /\ epc' = "done"
                     /\ ereqs' = ereqs
    /\ UNCHANGED <<demuxVars, execVars, chunkVars, jsonVars, connVars, optVars, queryVars, streamVars, linesVars>>

\* The start request fails in the client: the stream yields the error.
StartSendFails ==
    /\ epc = "starting"
    /\ eout' = Append(eout, ErrorItem(HyperError))
    /\ epc' = "done"
    /\ UNCHANGED <<ereqs, eresp, ecreate>>
    /\ UNCHANGED <<demuxVars, execVars, chunkVars, jsonVars, connVars, optVars, queryVars, streamVars, linesVars>>

\* The daemon answers the start request: get_body passes the body on to the
\* chunk stream, or the stream yields the failure.
StartResponds ==
    /\ epc = "starting"
    /\ \E st \in StatusCodes, b \in Bodies, readOk \in BOOLEAN :
         IF IsSuccess(st)
         THEN epc' = "streaming" /\ eout' = eout
         ELSE /\ eout' = Append(eout, ErrorItem((IF readOk THEN FailureResult(st, b)
                                                           ELSE Err(HyperError)).error))
              /\ epc' = "done"
    /\ UNCHANGED <<ereqs, eresp, ecreate>>
    /\ UNCHANGED <<demuxVars, execVars, chunkVars, jsonVars, connVars, optVars, queryVars, streamVars, linesVars>>

\* The output of the exec instance has ended.
CexecEnd ==
    /\ epc = "streaming"
    /\ epc' = "done"
    /\ UNCHANGED <<ereqs, eresp, ecreate, eout>>
    /\ UNCHANGED <<demuxVars, execVars, chunkVars, jsonVars, connVars, optVars, queryVars, streamVars, linesVars>>

CexecNext ==
    \/ ContainerExec \/ CexecFirstPoll \/ CreateSendFails \/ CreateResponds
    \/ StartSendFails \/ StartResponds \/ CexecEnd

----------------------------------------------------------------------------
(* Container options: ContainerOptionsBuilder and ContainerOptions::to_json. *)

\* The keys and values of the container options, as bytes.
OptText ==
    [ KeyImage |->   \* 'Image'
        <<73, 109, 97, 103, 101>>,
      KeyHostConfig |->   \* 'HostConfig'
        <<72, 111, 115, 116, 67, 111, 110, 102, 105, 103>>,
      KeyExposedPorts |->   \* 'ExposedPorts'
        <<69, 120, 112, 111, 115, 101, 100, 80, 111, 114, 116, 115>>,
      KeyPortBindings |->   \* 'HostConfig.PortBindings'
        <<72, 111, 115, 116, 67, 111, 110, 102, 105, 103, 46, 80, 111, 114, 116, 66, 105, 110, 100, 105, 110, 103, 115>>,
      KeyNetworkMode |->   \* 'HostConfig.NetworkMode'
        <<72, 111, 115, 116, 67, 111, 110, 102, 105, 103, 46, 78, 101, 116, 119, 111, 114, 107, 77, 111, 100, 101>>,
      KeyLogConfigType |->   \* 'HostConfig.LogConfig.Type'
        <<72, 111, 115, 116, 67, 111, 110, 102, 105, 103, 46, 76, 111, 103, 67, 111, 110, 102, 105, 103, 46, 84, 121, 112, 101>>,
      KeyHostPort |->   \* 'HostPort'
        <<72, 111, 115, 116, 80, 111, 114, 116>>,
      TestImage |->   \* 'test_image'
        <<116, 101, 115, 116, 95, 105, 109, 97, 103, 101>>,
      NetworkHost |->   \* 'host'
        <<104, 111, 115, 116>>,
      Fluentd |->   \* 'fluentd'
        <<102, 108, 117, 101, 110, 116, 100>>,
      KeyRestartPolicyName |->   \* 'HostConfig.RestartPolicy.Name'
        <<72, 111, 115, 116, 67, 111, 110, 102, 105, 103, 46, 82, 101, 115, 116, 97, 114, 116, 80, 111, 108, 105, 99, 121, 46, 78, 97, 109, 101>>,
      KeyRestartPolicyMaximumRetryCount |->   \* 'HostConfig.RestartPolicy.MaximumRetryCount'
        <<72, 111, 115, 116, 67, 111, 110, 102, 105, 103, 46, 82, 101, 115, 116, 97, 114, 116, 80, 111, 108, 105, 99, 121, 46, 77, 97, 120, 105, 109, 117, 109, 82, 101, 116, 114, 121, 67, 111, 117, 110, 116>>,
      OnFailure |->   \* 'on-failure'
        <<111, 110, 45, 102, 97, 105, 108, 117, 114, 101>>,
      Always |->   \* 'always'
        <<97, 108, 119, 97, 121, 115>>,
      ProtocolTcp |->   \* 'tcp'
        <<116, 99, 112>> ]

\* serde_json::Value.
ValueString(str) == [t |-> "str", v |-> str]

ValueNumber(n) == [t |-> "num", v |-> n]

ValueArray(es) == [t |-> "arr", v |-> es]

ValueObject(map) == [t |-> "obj", v |-> map]

\* Map::new()
EmptyMap == <<>>

\* A panic of insert: as_object_mut().unwrap() on a value that is no object.
InsertPanic == [t |-> "panic"]

\* Map::insert: the key is added, or its value replaced.
MapInsert(map, key, value) ==
    [k \in (DOMAIN map) \cup {key} |-> IF k = key THEN value ELSE map[k]]

\* str::split('.')
RECURSIVE SplitFrom(_, _, _)
SplitFrom(str, i, acc) ==
    IF i > Len(str) THEN <<acc>>
    ELSE IF str[i] = 46 THEN <<acc>> \o SplitFrom(str, i + 1, <<>>)
    ELSE SplitFrom(str, i + 1, Append(acc, str[i]))

Split(str) == SplitFrom(str, 1, <<>>)

\* An insert that starts every intermediate node as a new empty object.
RECURSIVE InsertFresh(_, _, _)
InsertFresh(key_path, value, parent_node) ==
    IF parent_node.t # "obj" THEN InsertPanic
    ELSE IF Len(key_path) > 1
    THEN LET child == InsertFresh(Tail(key_path), value, ValueObject(EmptyMap))
         IN  ValueObject(MapInsert(parent_node.v, Head(key_path), child))
    ELSE ValueObject(MapInsert(parent_node.v, Head(key_path), value))

\* insert: the value goes under the last key of the path; a key before it
\* names the object to descend into, made empty when it is not there.
RECURSIVE Insert(_, _, _)
Insert(key_path, value, parent_node) ==
    IF parent_node.t # "obj" THEN InsertPanic
    ELSE LET local_key == Head(key_path)
         IN  IF Len(key_path) > 1
             THEN LET node  == IF local_key \in DOMAIN parent_node.v
                               THEN parent_node.v[local_key]
                               ELSE ValueObject(EmptyMap)
                      child == Insert(Tail(key_path), value, node)
                  IN  IF child = InsertPanic THEN InsertPanic
                      ELSE ValueObject(MapInsert(parent_node.v, local_key, child))
             ELSE ValueObject(MapInsert(parent_node.v, local_key, value))

\* parse_from: the params are inserted in the order the HashMap gives them.
RECURSIVE ParseFrom(_, _, _)
ParseFrom(ps, order, node) ==
    IF order = <<>> \/ node = InsertPanic THEN node
    ELSE ParseFrom(ps, Tail(order), Insert(Split(Head(order)), ps[Head(order)], node))

\* to_json: HostConfig starts as an empty object, then the params.
ToJson(ps, order) ==
    ParseFrom(ps, order, ValueObject(MapInsert(EmptyMap, OptText.KeyHostConfig, ValueObject(EmptyMap))))

\* The orders a HashMap may give its keys in.
RECURSIVE Orders(_)
Orders(keys) ==
    IF keys = {} THEN {<<>>}
    ELSE UNION { { <<k>> \o o : o \in Orders(keys \ {k}) } : k \in keys }

\* format!("{}/{}", srcport, protocol)
PortKey(srcport, protocol) == Decimal(srcport) \o <<47>> \o protocol

\* The entries of the object stored under key; none when the key is not set
\* or holds no object.
StoredObject(ps, key) ==
    IF key \in DOMAIN ps /\ ps[key].t = "obj" THEN ps[key].v ELSE EmptyMap

\* An expose that starts from no port bindings.
ExposeForgetting(ps, srcport, protocol, hostport) ==
    LET exposedport   == ValueObject(MapInsert(EmptyMap, OptText.KeyHostPort, ValueString(Decimal(hostport))))
        port_bindings == MapInsert(EmptyMap, PortKey(srcport, protocol),
                                   ValueArray(<<exposedport>>))
        exposed_ports == [k \in DOMAIN port_bindings |-> ValueObject(EmptyMap)]
    IN  MapInsert(MapInsert(ps, OptText.KeyPortBindings, ValueObject(port_bindings)),
                  OptText.KeyExposedPorts, ValueObject(exposed_ports))

\* ContainerOptionsBuilder::expose: the stored port bindings with this one
\* added or replaced, and ExposedPorts with the keys of the port bindings.
Expose(ps, srcport, protocol, hostport) ==
    LET exposedport   == ValueObject(MapInsert(EmptyMap, OptText.KeyHostPort, ValueString(Decimal(hostport))))
        port_bindings == MapInsert(StoredObject(ps, OptText.KeyPortBindings), PortKey(srcport, protocol),
                                   ValueArray(<<exposedport>>))
        exposed_ports == [k \in DOMAIN port_bindings |-> ValueObject(EmptyMap)]
    IN  MapInsert(MapInsert(ps, OptText.KeyPortBindings, ValueObject(port_bindings)),
                  OptText.KeyExposedPorts, ValueObject(exposed_ports))

\* ContainerOptionsBuilder::publish: ExposedPorts with this port added.
Publish(ps, srcport, protocol) ==
    LET exposed_port_bindings ==
            MapInsert(StoredObject(ps, OptText.KeyExposedPorts), PortKey(srcport, protocol),
                      ValueObject(EmptyMap))
        exposed_ports == [k \in DOMAIN exposed_port_bindings |-> ValueObject(EmptyMap)]
    IN  MapInsert(ps, OptText.KeyExposedPorts, ValueObject(exposed_ports))

\* The ports and host ports the calls are given.
SrcPorts == {80, 81}

HostPorts == {8080, 8081}

\* ContainerOptionsBuilder::new("test_image")
OptStart ==
    /\ params = MapInsert(EmptyMap, OptText.KeyImage, ValueString(OptText.TestImage))
    /\ calls = <<>>
    /\ serialized = None

CallNetworkMode ==
    /\ serialized = None /\ Len(calls) < MaxCalls
    /\ params' = MapInsert(params, OptText.KeyNetworkMode, ValueString(OptText.NetworkHost))
    /\ calls' = Append(calls, [fn |-> "network_mode"])
    /\ UNCHANGED serialized
    /\ UNCHANGED <<demuxVars, execVars, chunkVars, jsonVars, connVars, queryVars, streamVars, cexecVars, linesVars>>

CallLogDriver ==
    /\ serialized = None /\ Len(calls) < MaxCalls
    /\ params' = MapInsert(params, OptText.KeyLogConfigType, ValueString(OptText.Fluentd))
    /\ calls' = Append(calls, [fn |-> "log_driver"])
    /\ UNCHANGED serialized
    /\ UNCHANGED <<demuxVars, execVars, chunkVars, jsonVars, connVars, queryVars, streamVars, cexecVars, linesVars>>

CallExpose ==
    /\ serialized = None /\ Len(calls) < MaxCalls
    /\ \E srcport \in SrcPorts, hostport \in HostPorts :
         /\ params' = Expose(params, srcport, OptText.ProtocolTcp, hostport)
         /\ calls' = Append(calls, [fn |-> "expose", srcport |-> srcport,
                                    protocol |-> OptText.ProtocolTcp, hostport |-> hostport])
    /\ UNCHANGED serialized
    /\ UNCHANGED <<demuxVars, execVars, chunkVars, jsonVars, connVars, queryVars, streamVars, cexecVars, linesVars>>

CallPublish ==
    /\ serialized = None /\ Len(calls) < MaxCalls
    /\ \E srcport \in SrcPorts :
         /\ params' = Publish(params, srcport, OptText.ProtocolTcp)
         /\ calls' = Append(calls, [fn |-> "publish", srcport |-> srcport,
                                    protocol |-> OptText.ProtocolTcp])
    /\ UNCHANGED serialized
    /\ UNCHANGED <<demuxVars, execVars, chunkVars, jsonVars, connVars, queryVars, streamVars, cexecVars, linesVars>>

\* The policy names and retry counts restart_policy is given.
PolicyNames == {OptText.OnFailure, OptText.Always}

RetryCounts == {0, 10}

\* ContainerOptionsBuilder::restart_policy: the name is stored; the retry
\* count is stored when the name is "on-failure", and nothing is removed.
RestartPolicy(ps, name, maximum_retry_count) ==
    LET named == MapInsert(ps, OptText.KeyRestartPolicyName, ValueString(name))
    IN  IF name = OptText.OnFailure
        THEN MapInsert(named, OptText.KeyRestartPolicyMaximumRetryCount,
                       ValueNumber(maximum_retry_count))
        ELSE named

CallRestartPolicy ==
    /\ serialized = None /\ Len(calls) < MaxCalls
    /\ \E name \in PolicyNames, maximum_retry_count \in RetryCounts :
         /\ params' = RestartPolicy(params, name, maximum_retry_count)
         /\ calls' = Append(calls, [fn |-> "restart_policy", name |-> name,
                                    maximum_retry_count |-> maximum_retry_count])
    /\ UNCHANGED serialized
    /\ UNCHANGED <<demuxVars, execVars, chunkVars, jsonVars, connVars, queryVars, streamVars, cexecVars, linesVars>>

\* build() and to_json(): the params are visited in some order.
BuildAndSerialize ==
    /\ serialized = None
    /\ \E order \in Orders(DOMAIN params) : serialized' = Some(ToJson(params, order))
    /\ UNCHANGED <<params, calls>>
    /\ UNCHANGED <<demuxVars, execVars, chunkVars, jsonVars, connVars, queryVars, streamVars, cexecVars, linesVars>>

OptNext ==
    \/ CallNetworkMode \/ CallLogDriver
    \/ CallExpose \/ CallPublish \/ BuildAndSerialize

\* A builder given a log driver and restart policies.
RestartNext == CallLogDriver \/ CallRestartPolicy \/ BuildAndSerialize

----------------------------------------------------------------------------
(* Query options: the builders whose options serialize to a query string. *)

\* The keys of the query parameters and of the filters, and the values the
\* calls are given, as bytes.
QueryText ==
    [ follow |->   \* 'follow'
        <<102, 111, 108, 108, 111, 119>>,
      stdout |->   \* 'stdout'
        <<115, 116, 100, 111, 117, 116>>,
      stderr |->   \* 'stderr'
        <<115, 116, 100, 101, 114, 114>>,
      timestamps |->   \* 'timestamps'
        <<116, 105, 109, 101, 115, 116, 97, 109, 112, 115>>,
      tail |->   \* 'tail'
        <<116, 97, 105, 108>>,
      since |->   \* 'since'
        <<115, 105, 110, 99, 101>>,
      force |->   \* 'force'
        <<102, 111, 114, 99, 101>>,
      v |->   \* 'v'
        <<118>>,
      all |->   \* 'all'
        <<97, 108, 108>>,
      before |->   \* 'before'
        <<98, 101, 102, 111, 114, 101>>,
      size |->   \* 'size'
        <<115, 105, 122, 101>>,
      repo |->   \* 'repo'
        <<114, 101, 112, 111>>,
      tag |->   \* 'tag'
        <<116, 97, 103>>,
      fromImage |->   \* 'fromImage'
        <<102, 114, 111, 109, 73, 109, 97, 103, 101>>,
      fromSrc |->   \* 'fromSrc'
        <<102, 114, 111, 109, 83, 114, 99>>,
      dockerfile |->   \* 'dockerfile'
        <<100, 111, 99, 107, 101, 114, 102, 105, 108, 101>>,
      t |->   \* 't'
        <<116>>,
      remote |->   \* 'remote'
        <<114, 101, 109, 111, 116, 101>>,
      nocache |->   \* 'nocache'
        <<110, 111, 99, 97, 99, 104, 101>>,
      rm |->   \* 'rm'
        <<114, 109>>,
      forcerm |->   \* 'forcerm'
        <<102, 111, 114, 99, 101, 114, 109>>,
      networkmode |->   \* 'networkmode'
        <<110, 101, 116, 119, 111, 114, 107, 109, 111, 100, 101>>,
      memory |->   \* 'memory'
        <<109, 101, 109, 111, 114, 121>>,
      cpushares |->   \* 'cpushares'
        <<99, 112, 117, 115, 104, 97, 114, 101, 115>>,
      digests |->   \* 'digests'
        <<100, 105, 103, 101, 115, 116, 115>>,
      filter |->   \* 'filter'
        <<102, 105, 108, 116, 101, 114>>,
      filters |->   \* 'filters'
        <<102, 105, 108, 116, 101, 114, 115>>,
      until |->   \* 'until'
        <<117, 110, 116, 105, 108>>,
      exit |->   \* 'exit'
        <<101, 120, 105, 116>>,
      status |->   \* 'status'
        <<115, 116, 97, 116, 117, 115>>,
      label |->   \* 'label'
        <<108, 97, 98, 101, 108>>,
      dangling |->   \* 'dangling'
        <<100, 97, 110, 103, 108, 105, 110, 103>>,
      container |->   \* 'container'
        <<99, 111, 110, 116, 97, 105, 110, 101, 114>>,
      event |->   \* 'event'
        <<101, 118, 101, 110, 116>>,
      image |->   \* 'image'
        <<105, 109, 97, 103, 101>>,
      volume |->   \* 'volume'
        <<118, 111, 108, 117, 109, 101>>,
      network |->   \* 'network'
        <<110, 101, 116, 119, 111, 114, 107>>,
      daemon |->   \* 'daemon'
        <<100, 97, 101, 109, 111, 110>>,
      type |->   \* 'type'
        <<116, 121, 112, 101>>,
      True |->   \* 'true'
        <<116, 114, 117, 101>>,
      False |->   \* 'false'
        <<102, 97, 108, 115, 101>>,
      All |->   \* 'all'
        <<97, 108, 108>>,
      Name |->   \* 'a/b c'
        <<97, 47, 98, 32, 99>>,
      Running |->   \* 'running'
        <<114, 117, 110, 110, 105, 110, 103>>,
      LabelA |->   \* 'a'
        <<97>>,
      LabelB |->   \* 'b'
        <<98>>,
      identitytoken |->   \* 'identitytoken'
        <<105, 100, 101, 110, 116, 105, 116, 121, 116, 111, 107, 101, 110>> ]

\* bool::to_string
BoolToString(f) == IF f THEN QueryText.True ELSE QueryText.False

\* The upper-case hexadecimal digit of a nibble.
HexDigit(n) == IF n < 10 THEN 48 + n ELSE 55 + n

\* form_urlencoded::byte_serialize: letters, digits and * - . _ stay, a space
\* becomes '+', any other byte becomes %XX.
RECURSIVE ByteSerialize(_)
ByteSerialize(str) ==
    IF str = <<>> THEN <<>>
    ELSE LET c == Head(str)
             e == IF c \in (48..57) \cup (65..90) \cup (97..122) \cup {42, 45, 46, 95} THEN <<c>>
                  ELSE IF c = 32 THEN <<43>>
                  ELSE <<37, HexDigit(c \div 16), HexDigit(c % 16)>>
         IN  e \o ByteSerialize(Tail(str))

\* form_urlencoded::Serializer::new(String::new()).extend_pairs(params).finish():
\* name=value for every pair in the order the HashMap gives them, joined by '&'.
RECURSIVE ExtendPairs(_, _)
ExtendPairs(ps, order) ==
    IF order = <<>> THEN <<>>
    ELSE LET k    == Head(order)
             pair == ByteSerialize(k) \o <<61>> \o ByteSerialize(ps[k])
         IN  IF Len(order) = 1 THEN pair
             ELSE pair \o <<38>> \o ExtendPairs(ps, Tail(order))

\* serialize() of the query options: None when no parameter is stored.
Serialize(ps, order) ==
    IF DOMAIN ps = {} THEN None ELSE Some(ExtendPairs(ps, order))

\* serde_json::to_string of a String: quoted, '"' and '\' escaped.
RECURSIVE JsonEscape(_)
JsonEscape(str) ==
    IF str = <<>> THEN <<>>
    ELSE (IF Head(str) \in {34, 92} THEN <<92, Head(str)>> ELSE <<Head(str)>>)
             \o JsonEscape(Tail(str))

JsonString(str) == <<34>> \o JsonEscape(str) \o <<34>>

\* serde_json::to_string of a Vec<String>.
RECURSIVE JsonStrings(_)
JsonStrings(strs) ==
    IF strs = <<>> THEN <<>>
    ELSE IF Len(strs) = 1 THEN JsonString(Head(strs))
    ELSE JsonString(Head(strs)) \o <<44>> \o JsonStrings(Tail(strs))

\* serde_json::to_string of a HashMap<&str, Vec<String>>, its keys in the
\* order the HashMap gives them.
RECURSIVE JsonMembers(_, _)
JsonMembers(param, order) ==
    IF order = <<>> THEN <<>>
    ELSE LET k      == Head(order)
             member == JsonString(k) \o <<58, 91>> \o JsonStrings(param[k]) \o <<93>>
         IN  IF Len(order) = 1 THEN member
             ELSE member \o <<44>> \o JsonMembers(param, Tail(order))

JsonToString(param, order) == <<123>> \o JsonMembers(param, order) \o <<125>>

\* The alphabet of base64::URL_SAFE.
Base64Char(n) ==
    IF n < 26 THEN 65 + n
    ELSE IF n < 52 THEN 97 + (n - 26)
    ELSE IF n < 62 THEN 48 + (n - 52)
    ELSE IF n = 62 THEN 45 ELSE 95

\* base64::encode_config(str, base64::URL_SAFE): three bytes give four
\* characters, the last group padded with '='.
RECURSIVE Base64Encode(_)
Base64Encode(str) ==
    IF str = <<>> THEN <<>>
    ELSE IF Len(str) = 1
    THEN <<Base64Char(str[1] \div 4), Base64Char((str[1] % 4) * 16), 61, 61>>
    ELSE IF Len(str) = 2
    THEN <<Base64Char(str[1] \div 4),
           Base64Char((str[1] % 4) * 16 + str[2] \div 16),
           Base64Char((str[2] % 16) * 4), 61>>
    ELSE <<Base64Char(str[1] \div 4),
           Base64Char((str[1] % 4) * 16 + str[2] \div 16),
           Base64Char((str[2] % 16) * 4 + str[3] \div 64),
           Base64Char(str[3] % 64)>> \o Base64Encode(SubSeq(str, 4, Len(str)))

\* RegistryAuth::serialize of a Token: its JSON in base64.
AuthSerialize(auth) ==
    Base64Encode(<<123>> \o JsonString(QueryText.identitytoken) \o <<58>>
                     \o JsonString(auth.identity_token) \o <<125>>)

\* PullOptions::auth_header
AuthHeader(options) ==
    IF options.auth = None THEN None ELSE Some(AuthSerialize(options.auth[1]))

\* The options builders with a query string.
Kinds ==
    {"LogsOptions", "RmContainerOptions", "ContainerListOptions", "TagOptions",
     "PullOptions", "BuildOptions", "ImageListOptions", "EventsOptions"}

\* The arguments the setters are given: booleans, strings and numbers, as the
\* setter turns them into a String.
BoolArgs == {BoolToString(TRUE), BoolToString(FALSE)}

StringArgs == {QueryText.All, QueryText.Name}

NumberArgs == {Decimal(0), Decimal(10)}

\* self.params.insert(key, "true".to_owned())
FlagArgs == {QueryText.True}

Setter(fn, key, values) == [fn |-> fn, key |-> key, values |-> values]

\* The setters of a builder that store their argument under their key.
Setters(kind) ==
    CASE kind = "LogsOptions" ->
           { Setter("follow", QueryText.follow, BoolArgs),
             Setter("stdout", QueryText.stdout, BoolArgs),
             Setter("stderr", QueryText.stderr, BoolArgs),
             Setter("timestamps", QueryText.timestamps, BoolArgs),
             Setter("tail", QueryText.tail, StringArgs),
             Setter("since", QueryText.since, NumberArgs) }
      [] kind = "RmContainerOptions" ->
           { Setter("force", QueryText.force, BoolArgs),
             Setter("volumes", QueryText.v, BoolArgs) }
      [] kind = "ContainerListOptions" ->
           { Setter("all", QueryText.all, FlagArgs),
             Setter("since", QueryText.since, StringArgs),
             Setter("before", QueryText.before, StringArgs),
             Setter("sized", QueryText.size, FlagArgs) }
      [] kind = "TagOptions" ->
           { Setter("repo", QueryText.repo, StringArgs),
             Setter("tag", QueryText.tag, StringArgs) }
      [] kind = "PullOptions" ->
           { Setter("image", QueryText.fromImage, StringArgs),
             Setter("src", QueryText.fromSrc, StringArgs),
             Setter("repo", QueryText.repo, StringArgs),
             Setter("tag", QueryText.tag, StringArgs) }
      [] kind = "BuildOptions" ->
           { Setter("dockerfile", QueryText.dockerfile, StringArgs),
             Setter("tag", QueryText.t, StringArgs),
             Setter("remote", QueryText.remote, StringArgs),
             Setter("nocache", QueryText.nocache, BoolArgs),
             Setter("rm", QueryText.rm, BoolArgs),
             Setter("forcerm", QueryText.forcerm, BoolArgs),
             Setter("network_mode", QueryText.networkmode, StringArgs),
             Setter("memory", QueryText.memory, NumberArgs),
             Setter("cpu_shares", QueryText.cpushares, NumberArgs) }
      [] kind = "ImageListOptions" ->
           { Setter("digests", QueryText.digests, BoolArgs),
             Setter("all", QueryText.all, FlagArgs),
             Setter("filter_name", QueryText.filter, StringArgs) }
      [] kind = "EventsOptions" ->
           { Setter("since", QueryText.since, NumberArgs),
             Setter("until", QueryText.until, NumberArgs) }

\* ContainerFilter and ImageFilter, as the key and the list of one value the
\* filter method inserts for them.
ContainerFilters ==
    { [key |-> QueryText.exit,   vec |-> <<Decimal(0)>>],          \* ExitCode(0)
      [key |-> QueryText.status, vec |-> <<QueryText.Running>>],   \* Status("running")
      [key |-> QueryText.label,  vec |-> <<QueryText.LabelA>>],    \* LabelName("a")
      [key |-> QueryText.label,                                    \* Label("a", "b")
       vec |-> <<QueryText.LabelA \o <<61>> \o QueryText.LabelB>>] }

ImageFilters ==
    { [key |-> QueryText.dangling, vec |-> <<BoolToString(TRUE)>>], \* Dangling
      [key |-> QueryText.label,    vec |-> <<QueryText.LabelA>>],   \* LabelName("a")
      [key |-> QueryText.label,                                     \* Label("a", "b")
       vec |-> <<QueryText.LabelA \o <<61>> \o QueryText.LabelB>>] }

\* EventFilter, as the key of its variant and its name; Type(n) has the name
\* event_filter_type_to_string gives.
EventFilters ==
    { [key |-> QueryText.container, n |-> QueryText.LabelA],       \* Container("a")
      [key |-> QueryText.container, n |-> QueryText.LabelB],       \* Container("b")
      [key |-> QueryText.image,     n |-> QueryText.LabelA],       \* Image("a")
      [key |-> QueryText.type,      n |-> QueryText.container] }   \* Type(Container)

\* The vectors of filters a filter method is given: at most two filters.
VecsOf(filters) ==
    {<<>>} \cup {<<f>> : f \in filters} \cup {<<f, g>> : f, g \in filters}

\* The loop of ContainerListOptionsBuilder::filter and of
\* ImageListOptionsBuilder::filter: a later filter of a key replaces an earlier.
RECURSIVE FilterParam(_, _)
FilterParam(filters, param) ==
    IF filters = <<>> THEN param
    ELSE FilterParam(Tail(filters), MapInsert(param, Head(filters).key, Head(filters).vec))

\* The names the events builder holds for a key.
NamesOf(names, key) == IF key \in DOMAIN names THEN names[key] ELSE <<>>

\* The loop of EventsOptionsBuilder::filter: the name is pushed onto the
\* builder's vector of its variant, and the vector so far is inserted.
RECURSIVE EventsFilterLoop(_, _, _)
EventsFilterLoop(filters, names, param) ==
    IF filters = <<>> THEN [names |-> names, param |-> param]
    ELSE LET f      == Head(filters)
             pushed == Append(NamesOf(names, f.key), f.n)
         IN  EventsFilterLoop(Tail(filters), MapInsert(names, f.key, pushed),
                              MapInsert(param, f.key, pushed))

\* A builder as ::default() or BuildOptionsBuilder::new(path) gives it.
NewBuilder(kind) == [kind |-> kind, params |-> EmptyMap, auth |-> None, names |-> EmptyMap]

\* The registry authentications a pull is given.
RegistryAuths == {[identity_token |-> QueryText.LabelA], [identity_token |-> QueryText.LabelB]}

\* The options build() gives: PullOptions also has the auth.
Options(ps, auth) == [params |-> ps, auth |-> auth]

\* PullOptionsBuilder::build: the params are cloned, the auth is taken out of
\* the builder.
PullBuild(b) == [options |-> Options(b.params, b.auth), builder |-> [b EXCEPT !.auth = None]]

\* build() of the other builders: the params are cloned.
Build(b) == [options |-> Options(b.params, None), builder |-> b]

QueryStart ==
    /\ obuilder \in {NewBuilder(kind) : kind \in Kinds}
    /\ given = EmptyMap
    /\ ncalls = 0
    /\ built = <<>>
    /\ query = None

\* A call of a setter: the builder's state after it, and what the call was given.
Called(b, fn, key, arg) ==
    /\ ncalls < MaxCalls
    /\ obuilder' = b
    /\ given' = MapInsert(given, fn, [key |-> key, arg |-> arg])
    /\ ncalls' = ncalls + 1
    /\ built' = <<>>
    /\ query' = None
    /\ UNCHANGED <<demuxVars, execVars, chunkVars, jsonVars, connVars, optVars, streamVars, cexecVars, linesVars>>

CallSetter ==
    \E s \in Setters(obuilder.kind) : \E value \in s.values :
        Called([obuilder EXCEPT !.params = MapInsert(@, s.key, value)], s.fn, s.key, value)

\* ContainerListOptionsBuilder::filter and ImageListOptionsBuilder::filter.
CallFilter ==
    /\ obuilder.kind \in {"ContainerListOptions", "ImageListOptions"}
    /\ \E filters \in VecsOf(IF obuilder.kind = "ContainerListOptions"
                             THEN ContainerFilters ELSE ImageFilters) :
         LET param == FilterParam(filters, EmptyMap)
         IN  \E order \in Orders(DOMAIN param) :
                Called([obuilder EXCEPT !.params = MapInsert(@, QueryText.filters, JsonToString(param, order))],
                       "filter", QueryText.filters, filters)

\* EventsOptionsBuilder::filter
CallEventsFilter ==
    /\ obuilder.kind = "EventsOptions"
    /\ \E filters \in VecsOf(EventFilters) :
         LET after == EventsFilterLoop(filters, obuilder.names, EmptyMap)
         IN  \E order \in Orders(DOMAIN after.param) :
                Called([obuilder EXCEPT !.names = after.names,
                                       !.params = MapInsert(@, QueryText.filters, JsonToString(after.param, order))],
                       "filter", QueryText.filters, filters)

\* PullOptionsBuilder::auth
CallAuth ==
    /\ obuilder.kind = "PullOptions"
    /\ \E auth \in RegistryAuths :
         Called([obuilder EXCEPT !.auth = Some(auth)], "auth", <<>>, auth)

\* build(): one more options value built since the last setter call.
CallBuild ==
    /\ Len(built) < MaxBuilds
    /\ LET r == IF obuilder.kind = "PullOptions" THEN PullBuild(obuilder) ELSE Build(obuilder)
       IN  /\ built' = Append(built, r.options)
           /\ obuilder' = r.builder
    /\ query' = None
    /\ UNCHANGED <<given, ncalls>>
    /\ UNCHANGED <<demuxVars, execVars, chunkVars, jsonVars, connVars, optVars, streamVars, cexecVars, linesVars>>

\* serialize() of the options built last: the params in the order the
\* HashMap gives them.
CallSerialize ==
    /\ built # <<>> /\ query = None
    /\ \E order \in Orders(DOMAIN built[Len(built)].params) :
         query' = Some(Serialize(built[Len(built)].params, order))
    /\ UNCHANGED <<obuilder, given, ncalls, built>>
    /\ UNCHANGED <<demuxVars, execVars, chunkVars, jsonVars, connVars, optVars, streamVars, cexecVars, linesVars>>

QueryNext ==
    \/ CallSetter \/ CallFilter \/ CallEventsFilter \/ CallAuth
    \/ CallBuild \/ CallSerialize

----------------------------------------------------------------------------
(* The specifications: one per component.                                  *)

\* A component that takes no part in a specification stays as constructed.
DemuxIdle ==
    /\ frames = <<>> /\ rsv = <<0, 0, 0>> /\ wire = <<>> /\ pos = 0
    /\ demux = DemuxInit /\ ended = FALSE /\ split = FALSE

ExecIdle ==
    /\ call = "none" /\ xpc = "idle" /\ sent = 0
    /\ resp = None /\ consumed = FALSE /\ result = None
    /\ transport = TransportUnix(Text.DefaultSocket, Some(0)) /\ args = None /\ req = None

ChunkIdle ==
    /\ hbody = <<>> /\ bidx = 0 /\ cpc = "idle" /\ cout = <<>>
    /\ demand = 0 /\ dropped = FALSE /\ held = TRUE

JsonIdle ==
    /\ jdocs = <<>> /\ jwire = <<>> /\ jpos = 0 /\ jbufs = <<>>
    /\ inner = <<>> /\ jout = <<>> /\ jdone = FALSE

ConnIdle ==
    /\ features = [unix_socket |-> TRUE, tls |-> TRUE]
    /\ environ = [DOCKER_HOST |-> None, DOCKER_CERT_PATH |-> None, DOCKER_TLS_VERIFY |-> FALSE]
    /\ ctor = None /\ docker = None

OptIdle == params = EmptyMap /\ calls = <<>> /\ serialized = None

StreamIdle == spc = "none" /\ sout = <<>>

CexecIdle == epc = "none" /\ ereqs = <<>> /\ eresp = None /\ ecreate = None /\ eout = <<>>

LinesIdle ==
    /\ ldocs = <<>> /\ lwire = <<>> /\ lpos = 0 /\ lbuf = <<>>
    /\ lout = <<>> /\ lpc = "done" /\ lmid = FALSE

QueryIdle ==
    /\ obuilder = NewBuilder("LogsOptions") /\ given = EmptyMap /\ ncalls = 0
    /\ built = <<>> /\ query = None

DemuxSpecInit == DemuxStart /\ ExecIdle /\ ChunkIdle /\ JsonIdle /\ ConnIdle /\ OptIdle /\ QueryIdle /\ StreamIdle /\ CexecIdle /\ LinesIdle

SpecDemux == DemuxSpecInit /\ [][DemuxNext]_vars

ExecSpecInit == ExecStart /\ DemuxIdle /\ ChunkIdle /\ JsonIdle /\ ConnIdle /\ OptIdle /\ QueryIdle /\ StreamIdle /\ CexecIdle /\ LinesIdle

SpecExec == ExecSpecInit /\ [][ExecNext]_vars

ChunkSpecInit == ChunkStart /\ DemuxIdle /\ ExecIdle /\ JsonIdle /\ ConnIdle /\ OptIdle /\ QueryIdle /\ StreamIdle /\ CexecIdle /\ LinesIdle

SpecChunk == ChunkSpecInit /\ [][ChunkNext]_vars

JsonSpecInit == JsonStart /\ DemuxIdle /\ ExecIdle /\ ChunkIdle /\ ConnIdle /\ OptIdle /\ QueryIdle /\ StreamIdle /\ CexecIdle /\ LinesIdle

SpecJson == JsonSpecInit /\ [][JsonNext]_vars

ConnSpecInit == ConnStart /\ DemuxIdle /\ ExecIdle /\ ChunkIdle /\ JsonIdle /\ OptIdle /\ QueryIdle /\ StreamIdle /\ CexecIdle /\ LinesIdle

SpecConn == ConnSpecInit /\ [][ConnNext]_vars

OptSpecInit == OptStart /\ DemuxIdle /\ ExecIdle /\ ChunkIdle /\ JsonIdle /\ ConnIdle /\ QueryIdle /\ StreamIdle /\ CexecIdle /\ LinesIdle

SpecOpt == OptSpecInit /\ [][OptNext]_vars

SpecRestart == OptSpecInit /\ [][RestartNext]_vars

QuerySpecInit == QueryStart /\ DemuxIdle /\ ExecIdle /\ ChunkIdle /\ JsonIdle /\ ConnIdle /\ OptIdle /\ StreamIdle /\ CexecIdle /\ LinesIdle

SpecQuery == QuerySpecInit /\ [][QueryNext]_vars

StreamSpecInit == ExecStart /\ StreamIdle /\ DemuxIdle /\ ChunkIdle /\ JsonIdle /\ ConnIdle /\ OptIdle /\ QueryIdle /\ CexecIdle /\ LinesIdle

SpecStream == StreamSpecInit /\ [][StreamNext]_vars

CexecSpecInit == CexecStart /\ DemuxIdle /\ ExecIdle /\ ChunkIdle /\ JsonIdle /\ ConnIdle /\ OptIdle /\ QueryIdle /\ StreamIdle /\ LinesIdle

SpecCexec == CexecSpecInit /\ [][CexecNext]_vars

LinesSpecInit == LinesStart /\ DemuxIdle /\ ExecIdle /\ ChunkIdle /\ JsonIdle /\ ConnIdle /\ OptIdle /\ QueryIdle /\ StreamIdle /\ CexecIdle

SpecLines == LinesSpecInit /\ [][LinesNext]_vars

----------------------------------------------------------------------------
(* Claims about the frame demultiplexer.                                   *)

\* The items of kind `kind` in a sequence of emitted items.
ItemsOf(out, kind) == SelectSeq(out, LAMBDA it : it.kind = kind)

\* The offset in wire just after the k-th frame.
RECURSIVE FrameEnd(_)
FrameEnd(k) == IF k = 0 THEN 0 ELSE FrameEnd(k - 1) + 8 + frames[k].len

\* How many frames lie whole within the first p bytes of wire.
CompleteFrames(p) == Cardinality({k \in 1..Len(frames) : FrameEnd(k) <= p})

\* C1: however the bytes delivered so far were split into chunks, the
\* demultiplexer has emitted the same ordered list of (tag, payload) pairs as
\* when the same bytes are delivered as one chunk.
C1_ChunkBoundaryIndependence ==
    demux.out = (IF ended THEN OnEnd(OnChunk(DemuxInit, Take(wire, pos)))
                          ELSE OnChunk(DemuxInit, Take(wire, pos))).out

\* Two frames decoded from a wire that was split inside a frame.
C1_Witness ==
    /\ split /\ ~ended /\ pos = Len(wire)
    /\ Len(frames) = 2 /\ Len(demux.out) = 2
    /\ frames[1].len = 2 /\ frames[2].len = 1

\* C2: every emitted frame is a whole 8-byte header followed by exactly the
\* declared number of payload bytes, all of them already received, and the
\* frame being awaited (fewer than `remaining` residual bytes) is not emitted.
C2_OnlyWholeFrames ==
    LET out == demux.out
        k   == Len(ItemsOf(out, "frame"))
    IN  /\ k <= Len(frames)
        /\ \A j \in 1..k :
             /\ out[j].kind = "frame"
             /\ Len(out[j].payload) = frames[j].len
             /\ out[j].payload = SubSeq(wire, FrameEnd(j - 1) + 9, FrameEnd(j))
             /\ FrameEnd(j) <= pos
        /\ IF demux.state.kind = "AwaitingPayload"
           THEN /\ Len(demux.residual) < demux.state.remaining
                /\ demux.state.remaining = frames[k + 1].len
                /\ pos = FrameEnd(k) + 8 + Len(demux.residual)
           ELSE /\ Len(demux.residual) < 8
                /\ pos = FrameEnd(k) + Len(demux.residual)

\* One frame emitted, the next one's payload half received.
C2_Witness ==
    /\ demux.state.kind = "AwaitingPayload"
    /\ demux.state.remaining = 2 /\ Len(demux.residual) = 1
    /\ Len(demux.out) = 1

\* C3: the stream ends cleanly exactly when it ends in AwaitingHeader with an
\* empty residual (on a frame boundary); otherwise exactly one
\* TruncatedStreamError is emitted, as the last item, and no frame is emitted
\* for the incomplete data. No error is emitted before the end.
C3_TruncationIsAnError ==
    LET out   == demux.out
        errs  == Len(ItemsOf(out, "error"))
        clean == demux.state.kind = "AwaitingHeader" /\ demux.residual = <<>>
    IN  /\ ~ended => errs = 0
        /\ ended =>
             /\ clean <=> (\E k \in 0..Len(frames) : pos = FrameEnd(k))
             /\ clean => errs = 0
             /\ ~clean => errs = 1 /\ out[Len(out)] = TruncatedStreamError
             /\ Len(ItemsOf(out, "frame")) = CompleteFrames(pos)

\* The stream ended after one frame and 5 of the next header's 8 bytes.
C3_Witness ==
    /\ ended /\ Len(demux.residual) = 5 /\ demux.state.kind = "AwaitingHeader"
    /\ Len(demux.out) = 2
    /\ demux.out[1].kind = "frame" /\ demux.out[2] = TruncatedStreamError

\* C4: the tag of an emitted frame is decided by header byte 0 alone (0 stdin,
\* 1 stdout, 2 stderr) and its payload by the big-endian length in bytes
\* 4..7: the decoded frames are those written, whatever the reserved bytes.
C4_HeaderDecoding ==
    LET fs == ItemsOf(demux.out, "frame")
    IN  /\ Len(fs) = CompleteFrames(pos)
        /\ \A j \in 1..Len(fs) :
             /\ fs[j].tag = <<"stdin", "stdout", "stderr">>[frames[j].tag + 1]
             /\ fs[j].payload = PayloadBytes(j, frames[j].len)

\* A stderr frame and a stdin frame decoded from headers with non-zero
\* reserved bytes.
C4_Witness ==
    /\ rsv = <<1, 2, 3>> /\ Len(demux.out) = 2
    /\ demux.out[1].tag = "stderr" /\ demux.out[2].tag = "stdin"
    /\ Len(demux.out[1].payload) = 2

----------------------------------------------------------------------------
(* Claims about the request executor and the upgrade handshake.            *)

\* A get_body call that got a response and has returned.
GetBodyReturned == call = "get_body" /\ xpc = "done" /\ resp # None

\* An upgrade call that got a response and has returned.
UpgradeReturned == call = "stream_upgrade" /\ xpc = "done" /\ resp # None

\* C5: a response with status 200, 201, 101 or 204 returns success with the
\* body not consumed; a response with any other status, whatever its body
\* (once the body has been read), returns a Fault carrying that status.
C5_StatusClassification ==
    GetBodyReturned =>
        LET st == resp[1].status
            r  == result[1]
        IN  IF st \in {200, 201, 101, 204}
            THEN r = Ok(BodyHandle) /\ ~consumed
            ELSE r # Err(HyperError) =>
                    /\ ~r.ok
                    /\ r.error.kind = "Fault"
                    /\ r.error.code = st

\* The body's message as the claim reads it: the value of the first string
\* `message` member of a body that is one JSON object.
ClaimedBodyMessage(body) ==
    LET v == FromStr(body) IN
    IF v = None \/ v[1].t # "obj" THEN None
    ELSE LET ms == SelectSeq(v[1].v, LAMBDA m : m[1] = KeyMessage /\ m[2].t = "str")
         IN  IF ms = <<>> THEN None ELSE Some(ms[1][2].v)

\* The reason phrase of the statuses that are no success, else the fixed string.
ReasonOrUnknown(st) ==
    CASE st = 304 -> <<78, 111, 116, 32, 77, 111, 100, 105, 102, 105, 101, 100>>
      [] st = 404 -> <<78, 111, 116, 32, 70, 111, 117, 110, 100>>
      [] st = 500 -> <<73, 110, 116, 101, 114, 110, 97, 108, 32, 83, 101, 114, 118,
                       101, 114, 32, 69, 114, 114, 111, 114>>
      [] OTHER -> <<117, 110, 107, 110, 111, 119, 110, 32, 101, 114, 114, 111, 114,
                    32, 99, 111, 100, 101>>

\* A Fault has been returned.
FaultReturned == GetBodyReturned /\ ~result[1].ok /\ result[1].error.kind = "Fault"

\* C6 as claimed: the Fault's message is the value of the `message` field when
\* the body parses as a JSON object with a string `message` field, and
\* otherwise the reason phrase or "unknown error code".
C6_MessageOfObjectBody ==
    FaultReturned =>
        LET m == ClaimedBodyMessage(resp[1].body)
        IN  result[1].error.message =
                IF m # None THEN m[1] ELSE ReasonOrUnknown(resp[1].status)

\* The message each body of the model deserializes to as an ErrorResponse.
ErrorResponseOf(body) ==
    CASE body = BodyMessage ->
           \* 'no such container'
           Some(<<110, 111, 32, 115, 117, 99, 104, 32, 99, 111, 110, 116, 97, 105,
                  110, 101, 114>>)
      [] body = BodyExtraField -> Some(<<109>>)             \* 'm'
      [] body = BodyArray -> Some(<<98, 111, 111, 109>>)    \* 'boom'
      [] OTHER -> None

\* C6 (amended): the Fault's message is the message the body deserializes to
\* as an ErrorResponse: the value of the `message` field of a JSON object with
\* exactly one `message` field, a string, or the one string of a one-element
\* JSON array; otherwise the reason phrase or "unknown error code".
C6_FaultMessage ==
    FaultReturned =>
        LET m == ErrorResponseOf(resp[1].body)
        IN  result[1].error.message =
                IF m # None THEN m[1] ELSE ReasonOrUnknown(resp[1].status)

\* Status 404 with body {"message":"no such container"} gave
\* Fault{404, "no such container"}.
C6_Witness ==
    /\ FaultReturned
    /\ resp[1] = [status |-> 404, body |-> BodyMessage]
    /\ result[1].error.code = 404
    /\ result[1].error.message = SubSeq(BodyMessage, 13, 29)

\* C7 as claimed: status 101 yields the raw duplex stream, any other status
\* the UpgradeRejected error.
C7_UpgradeByStatus ==
    UpgradeReturned =>
        IF resp[1].status = 101
        THEN result[1] = Ok(Upgraded)
        ELSE result[1] = Err(ConnectionNotUpgraded)

\* C7 (amended): status 101 yields the raw duplex stream, or hyper's error
\* when hyper cannot complete the upgrade; any other status yields the
\* UpgradeRejected error; never a Fault, and a stream only after a 101.
C7_UpgradeOutcome ==
    UpgradeReturned =>
        IF resp[1].status = 101
        THEN result[1] \in {Ok(Upgraded), Err(HyperError)}
        ELSE result[1] = Err(ConnectionNotUpgraded)

\* An upgrade request answered 200 with a JSON message body was rejected.
C7_Witness ==
    /\ UpgradeReturned
    /\ resp[1] = [status |-> 200, body |-> BodyMessage]
    /\ result[1] = Err(ConnectionNotUpgraded)

----------------------------------------------------------------------------
(* Claims about the JSON value stream and the chunk stream.                *)

\* The offset in jwire just after the k-th document.
RECURSIVE DocEnd(_)
DocEnd(k) == IF k = 0 THEN 0 ELSE DocEnd(k - 1) + Len(jdocs[k])

\* The value each document of the model stands for.
DocValue(doc) ==
    CASE doc = DocA -> [t |-> "obj", v |-> (<<97>> :> [t |-> "num", v |-> 1])]
      [] doc = DocB -> [t |-> "obj", v |-> (<<98>> :> [t |-> "num", v |-> 2])]
      [] doc = DocList ->
           [t |-> "arr", v |-> <<[t |-> "num", v |-> 1], [t |-> "bool", v |-> TRUE]>>]

\* A delivered buffer that holds only whole documents: it starts and ends on
\* document boundaries.
WholeDocs(e) ==
    /\ e.kind = "buffer"
    /\ \E k \in 0..Len(jdocs) : DocEnd(k) = e.from - 1
    /\ \E k \in 0..Len(jdocs) : DocEnd(k) = e.to

\* The values of the documents a buffer of whole documents holds, in
\* document order.
DocValuesIn(e) ==
    LET ks == {k \in 1..Len(jdocs) : DocEnd(k - 1) >= e.from - 1 /\ DocEnd(k) <= e.to}
        lo == CHOOSE k \in ks : \A m \in ks : k <= m
    IN  [i \in 1..Cardinality(ks) |-> ValueItem(DocValue(jdocs[lo + i - 1]))]

\* The items the k-th delivery owes the consumer.
ItemsOwed(k) ==
    LET e == jbufs[k] IN
    IF e.kind = "err" THEN <<ErrorItem(HyperError)>>
    ELSE IF WholeDocs(e) THEN DocValuesIn(e)
    ELSE ParseStream(SubSeq(jwire, e.from, e.to))

\* C8: a buffer that holds only whole top-level JSON values yields every one
\* of them, in document order, and every item of a buffer has been yielded
\* by the time the next buffer is requested.
C8_ValuesInOrder ==
    LET n      == Len(jbufs)
        before == Flatten([k \in 1..(n - 1) |-> ItemsOwed(k)])
        all    == Flatten([k \in 1..n |-> ItemsOwed(k)])
    IN  /\ jout \o inner = all
        /\ n > 0 => Len(jout) >= Len(before)

\* One chunk {"a":1}{"b":2} has yielded {"a":1} then {"b":2}.
C8_Witness ==
    /\ jdocs = <<DocA, DocB>>
    /\ jbufs = <<BufferEntry(1, 14)>>
    /\ inner = <<>>
    /\ Len(jout) = 2
    /\ jout[1].v.v[<<97>>].v = 1 /\ jout[2].v.v[<<98>>].v = 2

\* C9: while the chunk stream delivers buffers, a SerializationError is the
\* last item the stream yields: no item follows it, whatever the later
\* buffers hold.
C9_ParseErrorIsTerminal ==
    (\A k \in 1..Len(jbufs) : jbufs[k].kind = "buffer") =>
        \A i \in 1..Len(jout) :
            jout[i] = ErrorItem(SerdeJsonError) => i = Len(jout)

\* C10: an error of the connection is the last item the chunk stream yields.
C10_ChunkErrorIsTerminal ==
    \A i \in 1..Len(cout) :
        cout[i].kind = "err" => i = Len(cout)

\* The calls of body.next() the chunk stream has made: the items it has taken
\* and the call in flight.
BodyRequests == bidx + (IF cpc = "polling" THEN 1 ELSE 0)

\* C11: the chunk stream yields the body's items in the order the body gives
\* them; it asks the body for an item only when the consumer has polled for
\* one, so item k+1 is requested only after item k was yielded and the
\* consumer polled again, and at most one request is in flight.
C11_PullDriven ==
    /\ Len(cout) = bidx
    /\ \A i \in 1..Len(cout) :
         cout[i] = (IF hbody[i] = "err" THEN ErrorItem(HyperError) ELSE BufferItem(i))
    /\ BodyRequests <= demand
    /\ BodyRequests <= Len(cout) + 1

C11_Witness ==
    /\ Len(cout) >= 2
    /\ cout[1].kind = "buffer" /\ cout[2].kind = "buffer"
    /\ cpc = "polling"
    /\ demand = 3

----------------------------------------------------------------------------
(* Claims about the construction of a client.                              *)

\* Docker::new has returned (or panicked).
NewReturned == ctor # None /\ ctor[1].fn = "Docker::new"

\* A string the URI parser reads as scheme://host[:port]...
IsUrl(str) ==
    /\ ParseUri(str) # None
    /\ ParseUri(str)[1].scheme # None
    /\ UriHost(ParseUri(str)[1]) # None

\* <scheme>://<host>:<port> of a URL, the port 80 when the URL has none.
ClaimedHostStr(str) ==
    LET uri == ParseUri(str)[1]
    IN  uri.scheme[1] \o Text.SchemeSep \o UriHost(uri)[1] \o <<58>>
            \o Decimal(IF UriPortU16(uri) = None THEN 80 ELSE UriPortU16(uri)[1])

\* The client is the Unix backend bound to path.
IsUnixAt(d, path) ==
    d.kind = "constructed" /\ d.transport.kind = "Unix" /\ d.transport.path = path

\* C12 as stated, for a build with domain-socket support: DOCKER_HOST =
\* unix://<path> gives the Unix backend bound to <path>; any other URL gives
\* a TCP-family backend whose host string is <scheme>://<host>:<port>, the
\* port 80 when the URL has none; DOCKER_HOST unset gives the Unix backend
\* bound to /var/run/docker.sock.
C12_EndpointByEnv ==
    (NewReturned /\ features.unix_socket) =>
        LET d == docker[1]
        IN  IF environ.DOCKER_HOST = None THEN IsUnixAt(d, Text.DefaultSocket)
            ELSE LET h == environ.DOCKER_HOST[1]
                 IN  IF StripPrefix(h, Text.UnixPrefix) # None
                     THEN IsUnixAt(d, StripPrefix(h, Text.UnixPrefix)[1])
                     ELSE IsUrl(h) =>
                            /\ d.kind = "constructed"
                            /\ d.transport.kind \in {"Tcp", "EncryptedTcp"}
                            /\ d.transport.host = ClaimedHostStr(h)

\* C12: in a build with domain-socket support, DOCKER_HOST = unix://<path>
\* gives the Unix backend bound to exactly <path> and DOCKER_HOST unset gives
\* the Unix backend bound to /var/run/docker.sock; in a build without it
\* Docker::new panics in both cases.  Any other URL gives, unless the TLS
\* files fail to load (a panic), a TCP-family backend whose host string is
\* <scheme>://<host>:<port>, the port 80 when the URL has none, except that
\* EncryptedTcp has every 'tcp://' of it replaced by 'https://'.
C12_EndpointResolution ==
    NewReturned =>
        LET d    == docker[1]
            unix == environ.DOCKER_HOST # None
                        /\ StripPrefix(environ.DOCKER_HOST[1], Text.UnixPrefix) # None
        IN  IF environ.DOCKER_HOST = None \/ unix
            THEN IF ~features.unix_socket THEN d.kind = "panic"
                 ELSE IF unix
                      THEN IsUnixAt(d, StripPrefix(environ.DOCKER_HOST[1], Text.UnixPrefix)[1])
                      ELSE IsUnixAt(d, Text.DefaultSocket)
            ELSE LET h == environ.DOCKER_HOST[1]
                 IN  IsUrl(h) =>
                       IF d.kind = "panic"
                       THEN features.tls /\ environ.DOCKER_CERT_PATH # None
                                /\ ~TlsFilesLoad(environ)
                       ELSE /\ d.transport.kind \in {"Tcp", "EncryptedTcp"}
                            /\ d.transport.host =
                                 (IF d.transport.kind = "EncryptedTcp"
                                  THEN Replace(ClaimedHostStr(h), Text.TcpPrefix, Text.HttpsPrefix)
                                  ELSE ClaimedHostStr(h))

C12_Witness ==
    /\ NewReturned
    /\ environ.DOCKER_HOST = Some(Text.HostTcpNoPort)
    /\ docker[1].kind = "constructed"
    /\ docker[1].transport.kind = "EncryptedTcp"

\* A constructor has given a client with a TCP-family backend.
TcpFamilyBuilt ==
    /\ docker # None
    /\ docker[1].kind = "constructed"
    /\ docker[1].transport.kind # "Unix"

\* C13: in a build with TLS support, a client for a descriptor that is not a
\* domain socket has the EncryptedTcp backend if and only if TLS material is
\* configured, and the host string of EncryptedTcp starts with 'https://'
\* whatever the scheme of the descriptor.
C13_TlsSelection ==
    (TcpFamilyBuilt /\ features.tls) =>
        /\ docker[1].transport.kind = "EncryptedTcp" <=> environ.DOCKER_CERT_PATH # None
        /\ docker[1].transport.kind = "EncryptedTcp" =>
               HasAt(docker[1].transport.host, 1, Text.HttpsPrefix)

\* C14: a constructor gives a client with one backend, or fails with a
\* ConfigurationError value.
C14_TotalAndEager ==
    docker # None => docker[1].kind \in {"constructed", "ConfigurationError"}

\* C15: every client with the Unix backend has a pool that keeps zero idle
\* connections.
C15_UnixPoolKeepsNoIdle ==
    (docker # None /\ docker[1].kind = "constructed" /\ docker[1].transport.kind = "Unix") =>
        docker[1].transport.pool_max_idle_per_host = Some(0)

----------------------------------------------------------------------------
(* Claims about the requests the transport builds and sends.               *)

\* The names of the headers of a request.
HeaderNames(r) == {r.headers[i][1] : i \in 1..Len(r.headers)}

C17_NoRetry ==
    /\ xpc # "idle" => sent = 1
    /\ result # None => sent = 1

C17_Witness ==
    /\ xpc = "done"
    /\ sent = 1
    /\ ~result[1].ok
    /\ result[1].error = HyperError
    /\ resp = None

----------------------------------------------------------------------------
(* Claims about the container options.                                     *)

\* The value at a path of keys of a body; None when the path is not there.
RECURSIVE ValueAt(_, _)
ValueAt(node, path) ==
    IF path = <<>> THEN Some(node)
    ELSE IF node.t # "obj" \/ Head(path) \notin DOMAIN node.v THEN None
    ELSE ValueAt(node.v[Head(path)], Tail(path))

\* C19: the serialized body is a JSON object with an Image field and a
\* HostConfig object, empty when no HostConfig option is stored; every option
\* stored under a dotted key is at the nested path of that key, options with
\* the same parent included; and the body is the same in whatever order the
\* stored options are visited.
C19_OptionsSerialization ==
    serialized # None =>
        LET b == serialized[1]
        IN  /\ b.t = "obj"
            /\ ValueAt(b, <<OptText.KeyImage>>) = Some(ValueString(OptText.TestImage))
            /\ ValueAt(b, <<OptText.KeyHostConfig>>) # None
            /\ ValueAt(b, <<OptText.KeyHostConfig>>)[1].t = "obj"
            /\ (\A key \in DOMAIN params : Split(key)[1] # OptText.KeyHostConfig)
                   => ValueAt(b, <<OptText.KeyHostConfig>>) = Some(ValueObject(EmptyMap))
            /\ \A key \in DOMAIN params : ValueAt(b, Split(key)) = Some(params[key])
            /\ \A order \in Orders(DOMAIN params) : ToJson(params, order) = b

C19_Witness ==
    /\ serialized # None
    /\ OptText.KeyNetworkMode \in DOMAIN params
    /\ OptText.KeyLogConfigType \in DOMAIN params
    /\ OptText.KeyPortBindings \in DOMAIN params
    /\ ValueAt(serialized[1], Split(OptText.KeyLogConfigType)) = Some(ValueString(OptText.Fluentd))

\* The expose calls among the calls so far.
ExposeCalls == SelectSeq(calls, LAMBDA c : c.fn = "expose")

\* The host port of the latest expose call for a port key.
LatestHostPort(key) ==
    LET last == CHOOSE i \in 1..Len(ExposeCalls) :
                    /\ PortKey(ExposeCalls[i].srcport, ExposeCalls[i].protocol) = key
                    /\ \A j \in (i + 1)..Len(ExposeCalls) :
                          PortKey(ExposeCalls[j].srcport, ExposeCalls[j].protocol) # key
    IN  ExposeCalls[last].hostport

\* C20: after expose calls only, on a new builder, HostConfig.PortBindings
\* has one entry for every port exposed, a list of one object whose HostPort
\* is that of the port's latest expose call, and ExposedPorts has the same
\* keys; the serialized body has both at their paths.
C20_ExposeKeepsBindings ==
    (calls # <<>> /\ ExposeCalls = calls) =>
        LET exposed == {PortKey(calls[i].srcport, calls[i].protocol) : i \in 1..Len(calls)}
            bound(key) == ValueArray(<<ValueObject(
                              MapInsert(EmptyMap, OptText.KeyHostPort, ValueString(Decimal(LatestHostPort(key)))))>>)
            bindings == ValueObject([key \in exposed |-> bound(key)])
            ports    == ValueObject([key \in exposed |-> ValueObject(EmptyMap)])
        IN  /\ OptText.KeyPortBindings \in DOMAIN params /\ params[OptText.KeyPortBindings] = bindings
            /\ OptText.KeyExposedPorts \in DOMAIN params /\ params[OptText.KeyExposedPorts] = ports
            /\ serialized # None =>
                 /\ ValueAt(serialized[1], Split(OptText.KeyPortBindings)) = Some(bindings)
                 /\ ValueAt(serialized[1], <<OptText.KeyExposedPorts>>) = Some(ports)

C20_Witness ==
    /\ Len(calls) = 3 /\ ExposeCalls = calls
    /\ calls[1].srcport = 80 /\ calls[1].hostport = 8080
    /\ calls[2].srcport = 81
    /\ calls[3].srcport = 80 /\ calls[3].hostport = 8081
    /\ serialized # None

\* The port keys of the calls so far of the builder methods fns.
PortsGiven(fns) ==
    {PortKey(calls[i].srcport, calls[i].protocol) : i \in {j \in 1..Len(calls) : calls[j].fn \in fns}}

\* C23: after publish and expose calls on one builder, in any order,
\* ExposedPorts has an entry for every port given to publish and for every
\* port given to expose, and HostConfig.PortBindings has the ports given to
\* expose and no other: publish adds none and removes none.
C23_PublishAndExpose ==
    /\ PortsGiven({"publish", "expose"}) \subseteq DOMAIN StoredObject(params, OptText.KeyExposedPorts)
    /\ DOMAIN StoredObject(params, OptText.KeyPortBindings) = PortsGiven({"expose"})

\* The restart_policy calls among the calls so far.
RestartCalls == SelectSeq(calls, LAMBDA c : c.fn = "restart_policy")

\* C21: the built options have HostConfig.RestartPolicy.MaximumRetryCount
\* if and only if the name given to the latest restart_policy call is
\* "on-failure"; for another name only RestartPolicy.Name is there, also
\* when an earlier call on the builder gave "on-failure".
C21_RestartPolicyOfLatestCall ==
    (serialized # None /\ RestartCalls # <<>>) =>
        LET latest == RestartCalls[Len(RestartCalls)]
            policy == ValueAt(serialized[1], <<OptText.KeyHostConfig>> \o
                                  SubSeq(Split(OptText.KeyRestartPolicyName), 2, 2))
        IN  /\ policy # None /\ policy[1].t = "obj"
            /\ ValueAt(serialized[1], Split(OptText.KeyRestartPolicyName)) = Some(ValueString(latest.name))
            /\ ValueAt(serialized[1], Split(OptText.KeyRestartPolicyMaximumRetryCount)) # None
                   <=> latest.name = OptText.OnFailure
            /\ latest.name # OptText.OnFailure
                   => DOMAIN policy[1].v = {Split(OptText.KeyRestartPolicyName)[3]}

----------------------------------------------------------------------------
(* Claims about the query options.                                         *)

\* The pieces of str between the bytes sep.
Pieces(str, sep) ==
    LET at     == {i \in 1..Len(str) : str[i] = sep}
        n      == Cardinality(at)
        nth(k) == CHOOSE i \in at : Cardinality({j \in at : j < i}) = k - 1
        from(k) == IF k = 1 THEN 1 ELSE nth(k - 1) + 1
        to(k)   == IF k = n + 1 THEN Len(str) ELSE nth(k) - 1
    IN  [k \in 1..(n + 1) |-> SubSeq(str, from(k), to(k))]

\* The value of a hexadecimal digit.
Unhex(c) == IF c <= 57 THEN c - 48 ELSE c - 55

\* A name or value of a query string, decoded: '+' is a space, %XX a byte.
\* A long string is decoded in two halves, cut outside an escape.
RECURSIVE Decoded(_)
Decoded(str) ==
    IF str = <<>> THEN <<>>
    ELSE IF Len(str) <= 3
    THEN IF Head(str) = 43 THEN <<32>> \o Decoded(Tail(str))
         ELSE IF Head(str) = 37 /\ Len(str) = 3
         THEN <<Unhex(str[2]) * 16 + Unhex(str[3])>>
         ELSE <<Head(str)>> \o Decoded(Tail(str))
    ELSE LET half == Len(str) \div 2
             cut  == IF str[half] = 37 THEN half - 1
                     ELSE IF str[half - 1] = 37 THEN half + 1
                     ELSE half
         IN  Decoded(SubSeq(str, 1, cut)) \o Decoded(SubSeq(str, cut + 1, Len(str)))

\* The key=value pairs of a query string, decoded.
QueryPairs(str) ==
    LET pairs == Pieces(str, 38)
    IN  [i \in 1..Len(pairs) |->
            LET kv == Pieces(pairs[i], 61)
            IN  IF Len(kv) = 2 THEN <<Decoded(kv[1]), Decoded(kv[2])>> ELSE <<>>]

\* The setters called that store a query parameter.
OptionsSet == {fn \in DOMAIN given : fn # "auth"}

\* The values a call gives its parameter: what it stores on a new builder.
ValuesOfCall(fn) ==
    IF fn # "filter" THEN {given[fn].arg}
    ELSE LET param == IF obuilder.kind = "EventsOptions"
                      THEN EventsFilterLoop(given[fn].arg, EmptyMap, EmptyMap).param
                      ELSE FilterParam(given[fn].arg, EmptyMap)
         IN  {JsonToString(param, order) : order \in Orders(DOMAIN param)}

\* C22: serialize() of the options of a query builder (logs, remove, list,
\* tag, pull, build, image list, events) is None if and only if no option
\* was set on the builder; otherwise the query string has exactly one
\* key=value pair for every option set, with the value of the latest call.
C22_QuerySerialization ==
    query # None =>
        /\ query[1] = None <=> OptionsSet = {}
        /\ query[1] # None =>
             LET pairs == QueryPairs(query[1][1])
             IN  /\ Len(pairs) = Cardinality(OptionsSet)
                 /\ \A i \in 1..Len(pairs) : Len(pairs[i]) = 2
                 /\ \A fn \in OptionsSet :
                       \E i \in 1..Len(pairs) :
                          /\ pairs[i][1] = given[fn].key
                          /\ pairs[i][2] \in ValuesOfCall(fn)
                          /\ \A j \in 1..Len(pairs) : pairs[j][1] = given[fn].key => j = i

\* C27: two build() calls in a row, no setter call between them, return
\* equal options: the same parameters and the same registry auth header.
C27_BuildKeepsBuilder ==
    \A i, j \in 1..Len(built) :
        /\ built[i].params = built[j].params
        /\ AuthHeader(built[i]) = AuthHeader(built[j])

----------------------------------------------------------------------------
(* Claims about the streaming request.                                     *)

\* get_chunk_stream has failed: the client's error, a Fault, or an error of
\* reading or decoding the body of the failure.
StreamFailed == spc \in {"pending", "empty"} /\ result # None /\ ~result[1].ok

\* C25: stream_chunks sends no request before the stream is first polled;
\* and when the request fails before any body is delivered, by the client's
\* error or by a status that is not a success, the stream yields exactly
\* one item, that error, and has ended, with no buffer yielded.
C25_LazyOneErrorStream ==
    /\ spc \in {"none", "first"} => (sent = 0 /\ req = None)
    /\ spc # "none" => sent <= 1
    /\ (StreamFailed /\ spc = "empty") =>
           (sout = <<ErrorItem(result[1].error)>> /\ cout = <<>>)
    /\ StreamFailed => cout = <<>>
    /\ sout # <<>> => (spc = "empty" /\ StreamFailed)
    /\ spc = "second" => (result # None /\ result[1].ok)

C25_Witness ==
    /\ spc = "empty"
    /\ result # None /\ ~result[1].ok /\ result[1].error.kind = "Fault"
    /\ sout = <<ErrorItem(result[1].error)>>
    /\ sent = 1

----------------------------------------------------------------------------
(* Claims about exec on a container.                                       *)

\* The start requests among the requests sent.
StartRequests == {i \in 1..Len(ereqs) : ereqs[i] # Post(CreateEndpoint(ExecText.ContainerId))}

\* The id as the response to create carries it: a JSON string.
IdString(id) == <<34>> \o id \o <<34>>

\* C24: Container::exec sends the start request of an exec instance only
\* after the create request has returned a success with an id, and with
\* exactly that id; when the create request fails the stream yields that
\* one error and ends, and no start request is ever sent.
C24_CreateThenStart ==
    /\ epc \in {"none", "first"} => ereqs = <<>>
    /\ ereqs # <<>> => (ereqs[1] = Post(CreateEndpoint(ExecText.ContainerId)) /\ StartRequests \subseteq {2})
    /\ StartRequests # {} =>
          /\ ecreate # None /\ ecreate[1].ok
          /\ eresp # None /\ IsSuccess(eresp[1].status)
          /\ Contains(eresp[1].body, IdString(ecreate[1].value))
          /\ ereqs[2] = Post(ExecText.Exec \o <<47>> \o ecreate[1].value \o ExecText.Start)
    /\ (ecreate # None /\ ~ecreate[1].ok) =>
          /\ epc = "done"
          /\ eout = <<ErrorItem(ecreate[1].error)>>
          /\ StartRequests = {}

C24_Witness ==
    /\ epc = "done"
    /\ ecreate # None /\ ~ecreate[1].ok /\ ecreate[1].error.kind = "Fault"
    /\ eout = <<ErrorItem(ecreate[1].error)>>
    /\ Len(ereqs) = 1

\* The values of the documents, in the order the daemon wrote them.
ValuesOfLines == [i \in 1..Len(ldocs) |-> ValueItem(ToValue(FromStr(ldocs[i])[1]))]

\* C26: for a byte stream of newline-terminated JSON documents the line
\* streams (Docker::events, Container::stats) yield the parsed values of the
\* documents, in order, however the bytes are split into delivered buffers,
\* splits inside a document included.
C26_LinesWhateverTheBuffers ==
    lwire = LinesOf(ldocs) =>
        /\ lpc = "open" => \E k \in 0..Len(ldocs) : lout = SubSeq(ValuesOfLines, 1, k)
        /\ lpc = "done" => lout = ValuesOfLines
        /\ lpc = "failed" =>
              \E k \in 0..Len(ldocs) :
                 lout = Append(SubSeq(ValuesOfLines, 1, k), ErrorItem(IoError("Other")))

C26_Witness ==
    /\ lpc = "done" /\ lmid
    /\ Len(ldocs) = 2 /\ ldocs[1] # ldocs[2]
    /\ lwire = LinesOf(ldocs)
    /\ lout = ValuesOfLines

====
